---------------------------- MODULE Spec2Model ----------------------------
(***************************************************************************)
(* Chart-API (back_end/Chart-API-main/main.py): the schema-grounded chart  *)
(* recommendation and query pipeline.                                      *)
(*                                                                         *)
(* JSON values are tagged records [t |-> <type>, ...]; a Python dict key   *)
(* that may be absent is a field holding NoKey / [t |-> "absent"].  Text   *)
(* that the code scans character by character is a sequence of one-        *)
(* character strings; an f-string is the sequence of its parts.            *)
(***************************************************************************)
EXTENDS Integers, Sequences, FiniteSets, TLC

VARIABLES
    op,             \* the operation in progress
    pc,             \* its position
    columns_data,   \* api_execute_prompt: raw column descriptors
    sample_rows,    \* api_execute_prompt: sample rows used for profiling
    schema_profile, \* the profile handed to the suggester and the builders
    user_prompts,   \* the prompts of the request
    results,        \* ChartSuggester.suggest: records appended so far
    paths,          \* history: the path that produced each record of results
    llm,            \* history: the generative response consumed per prompt
    result,         \* the builder's return value, then the response body
    chart_i,        \* per-chart loop: number of charts already processed
    valid_charts,   \* api_execute_prompt: charts kept for the response
    kept,           \* history: the loop index of each chart of valid_charts
    built,          \* history: the charts as the builder returned them
    submitted,      \* history: (loop index, QuerySpec) of each chart submission
    outcomes,       \* history: how the execution of each submitted chart ended
    client,         \* execute_query_on_datalake: position and counters
    response        \* how the request ended

vars == << op, pc, columns_data, sample_rows, schema_profile, user_prompts,
           results, paths, llm, result, chart_i, valid_charts, kept, built,
           submitted, outcomes, client, response >>

-----------------------------------------------------------------------------
(* Shared vocabulary *)

NoKey == "<absent>"
Absent == [t |-> "absent"]
Null == [t |-> "null"]

Range(s) == { s[i] : i \in 1..Len(s) }

Min(a, b) == IF a < b THEN a ELSE b
MinOf(S) == CHOOSE x \in S : \A y \in S : x <= y
MaxOf(S) == CHOOSE x \in S : \A y \in S : x >= y

Prefix(s, n) == SubSeq(s, 1, Min(n, Len(s)))

\* all sequences over S of length 0..n
SeqsUpTo(S, n) == UNION { [1..k -> S] : k \in 0..n }

-----------------------------------------------------------------------------
(* The data-lakehouse as the client sees it *)

\* resultData values a status payload may carry.  A row is a mapping (an
\* ordered sequence of <<key, value>> cells) or something else.
Cell(k, v) == [k |-> k, v |-> v]
\* a number is v / 10^e, with no trailing zero among the e decimals
Num(n) == [t |-> "num", v |-> n, e |-> 0]
Str(chars) == [t |-> "str", v |-> chars]
Row(cells) == [t |-> "dict", v |-> cells]
RowsList(rows) == [t |-> "list", v |-> rows]

RowAsia == Row(<< Cell("Region", Str(<<"A", "s", "i", "a">>)), Cell("Sales", Num(100)) >>)
RowEU == Row(<< Cell("Region", Str(<<"E", "U">>)), Cell("Sales", Num(50)) >>)

ResultDatas ==
    { Absent, Null, RowsList(<< >>), RowsList(<< RowAsia, RowEU >>),
      RowsList(<< Num(7) >>), Str(<<"o", "k">>) }

\* What GET /query/{jobId} can answer: a JSON object, a transport failure
\* (httpx.HTTPError, raised by the request or by raise_for_status), or a body
\* that is no JSON object (json() or .get raises something else).
StatusValues == { "queued", "running", "completed", "failed", NoKey }
Messages == { "boom", NoKey }

StatusJson(s, m, rd) == [kind |-> "json", status |-> s, message |-> m, resultData |-> rd]
TransportAnswer == [kind |-> "transport", status |-> NoKey, message |-> NoKey, resultData |-> Absent]
BadBodyAnswer == [kind |-> "badbody", status |-> NoKey, message |-> NoKey, resultData |-> Absent]

PollAnswers ==
    { StatusJson(s, m, rd) : s \in StatusValues \ {"completed", "failed"}, m \in {NoKey}, rd \in {Absent} }
    \cup { StatusJson("completed", NoKey, rd) : rd \in ResultDatas }
    \cup { StatusJson("failed", m, Absent) : m \in Messages }
    \cup { TransportAnswer, BadBodyAnswer }

\* What POST /query can answer: jobId is a string, empty, or missing.
SubmitAnswers ==
    { [kind |-> "json", jobId |-> j] : j \in { "job1", "", NoKey } }
    \cup { [kind |-> "transport", jobId |-> NoKey], [kind |-> "badbody", jobId |-> NoKey] }

-----------------------------------------------------------------------------
(* execute_query_on_datalake *)

MaxPollAttempts == 60

NoOutcome == [kind |-> "none", detail |-> << >>, payload |-> BadBodyAnswer]
Returned(payload) == [kind |-> "completed", detail |-> << >>, payload |-> payload]
HttpException(detail) == [kind |-> "http_exception", detail |-> detail, payload |-> BadBodyAnswer]
OtherException(text) == [kind |-> "exception", detail |-> text, payload |-> BadBodyAnswer]

NoJobDetail == << "No jobId returned from data-lakehouse" >>
TimeoutDetail == << "Query execution timeout" >>
FailedDetail(ans) ==
    << "Query failed: ", IF ans.message = NoKey THEN "Unknown error" ELSE ans.message >>
TransportDetail == << "Data-lakehouse error: ", "transport" >>
BadBodyText == << "bad response body" >>

\* the client's position and locals; submits, polls and sleeps count the
\* requests and sleeps of the call, last is the latest answer to a poll
NoAnswer == [kind |-> "none", status |-> NoKey, message |-> NoKey, resultData |-> Absent]

ClientIdle ==
    [cpc |-> "idle", attempt |-> 0, submits |-> 0, polls |-> 0, sleeps |-> 0,
     job_id |-> NoKey, last |-> NoAnswer, outcome |-> NoOutcome]

ClientEnd(c, o) == [c EXCEPT !.cpc = "ended", !.outcome = o]

\* SubmitQuery without the jobId test of lines 185-186
SubmitQueryWithoutJobTest(c, ans) ==
    LET c1 == [c EXCEPT !.submits = @ + 1] IN
    CASE ans.kind = "transport" -> ClientEnd(c1, HttpException(TransportDetail))
      [] ans.kind = "badbody" -> ClientEnd(c1, OtherException(BadBodyText))
      [] OTHER -> [c1 EXCEPT !.cpc = "poll", !.attempt = 0, !.job_id = ans.jobId]

\* lines 177-186: the POST, raise_for_status, json(), the jobId test
SubmitQuery(c, ans) ==
    LET c1 == [c EXCEPT !.submits = @ + 1] IN
    CASE ans.kind = "transport" -> ClientEnd(c1, HttpException(TransportDetail))
      [] ans.kind = "badbody" -> ClientEnd(c1, OtherException(BadBodyText))
      [] ans.jobId \in { NoKey, "" } -> ClientEnd(c1, HttpException(NoJobDetail))
      [] OTHER -> [c1 EXCEPT !.cpc = "poll", !.attempt = 0, !.job_id = ans.jobId]

\* PollStatus without the test of line 199: a failed job is polled on
PollStatusIgnoringFailed(c, ans) ==
    LET c1 == [c EXCEPT !.polls = @ + 1, !.last = ans] IN
    CASE ans.kind = "transport" -> ClientEnd(c1, HttpException(TransportDetail))
      [] ans.kind = "badbody" -> ClientEnd(c1, OtherException(BadBodyText))
      [] ans.status = "completed" -> ClientEnd(c1, Returned(ans))
      [] OTHER -> [c1 EXCEPT !.cpc = "sleep"]

\* lines 190-203: one GET of the status and the two terminal tests
PollStatus(c, ans) ==
    LET c1 == [c EXCEPT !.polls = @ + 1, !.last = ans] IN
    CASE ans.kind = "transport" -> ClientEnd(c1, HttpException(TransportDetail))
      [] ans.kind = "badbody" -> ClientEnd(c1, OtherException(BadBodyText))
      [] ans.status = "completed" -> ClientEnd(c1, Returned(ans))
      [] ans.status = "failed" -> ClientEnd(c1, HttpException(FailedDetail(ans)))
      [] OTHER -> [c1 EXCEPT !.cpc = "sleep"]

\* AfterSleep with the loop bound of line 189 off by one
AfterSleepOneMore(c) ==
    LET c1 == [c EXCEPT !.sleeps = @ + 1, !.attempt = @ + 1] IN
    IF c1.attempt <= MaxPollAttempts
    THEN [c1 EXCEPT !.cpc = "poll"]
    ELSE ClientEnd(c1, HttpException(TimeoutDetail))

\* lines 205, 189, 207: the sleep, the next iteration or the timeout
AfterSleep(c) ==
    LET c1 == [c EXCEPT !.sleeps = @ + 1, !.attempt = @ + 1] IN
    IF c1.attempt < MaxPollAttempts
    THEN [c1 EXCEPT !.cpc = "poll"]
    ELSE ClientEnd(c1, HttpException(TimeoutDetail))

\* every way a call of execute_query_on_datalake can end
ExecOutcomes ==
    { Returned(a) : a \in { x \in PollAnswers : x.kind = "json" /\ x.status = "completed" } }
    \cup { HttpException(FailedDetail(a)) : a \in { x \in PollAnswers : x.kind = "json" /\ x.status = "failed" } }
    \cup { HttpException(NoJobDetail), HttpException(TimeoutDetail),
           HttpException(TransportDetail), OtherException(BadBodyText) }

-----------------------------------------------------------------------------
(* Text helpers: a text is a sequence of one-character strings *)

DigitChars == << "0", "1", "2", "3", "4", "5", "6", "7", "8", "9" >>
IsDigit(c) == c \in Range(DigitChars)
DigitValue(c) == (CHOOSE i \in 1..10 : DigitChars[i] = c) - 1
IsSpace(c) == c \in { " ", "\n", "\t" }

RECURSIVE LStrip(_)
LStrip(s) == IF s # << >> /\ IsSpace(Head(s)) THEN LStrip(Tail(s)) ELSE s

RECURSIVE RStrip(_)
RStrip(s) ==
    IF s # << >> /\ IsSpace(s[Len(s)]) THEN RStrip(SubSeq(s, 1, Len(s) - 1)) ELSE s

\* str.strip()
Strip(s) == RStrip(LStrip(s))

RECURSIVE DigitsOf(_)
DigitsOf(n) ==
    IF n < 10 THEN << DigitChars[n + 1] >>
    ELSE Append(DigitsOf(n \div 10), DigitChars[(n % 10) + 1])

\* str(n) of an integer
IntText(n) == IF n < 0 THEN << "-" >> \o DigitsOf(0 - n) ELSE DigitsOf(n)

RECURSIVE Pow10(_)
Pow10(k) == IF k = 0 THEN 1 ELSE 10 * Pow10(k - 1)

\* str(x) of a float with e > 0 decimals: sign, integer part, '.', decimals
Abs(n) == IF n < 0 THEN 0 - n ELSE n
RECURSIVE ZeroPad(_, _)
ZeroPad(s, k) == IF Len(s) >= k THEN s ELSE ZeroPad(<< "0" >> \o s, k)
DecimalText(v, e) ==
    (IF v < 0 THEN << "-" >> ELSE << >>)
    \o DigitsOf(Abs(v) \div Pow10(e)) \o << "." >> \o ZeroPad(DigitsOf(Abs(v) % Pow10(e)), e)

RECURSIVE DigitsValue(_)
DigitsValue(s) ==
    IF s = << >> THEN 0
    ELSE 10 * DigitsValue(SubSeq(s, 1, Len(s) - 1)) + DigitValue(s[Len(s)])

RECURSIVE Normal(_, _)
Normal(v, e) ==
    IF e > 0 /\ v % 10 = 0 THEN Normal(v \div 10, e - 1)
    ELSE [t |-> "num", v |-> v, e |-> e]

\* float(text) for texts of digits, '.', a sign and surrounding blanks (the
\* texts of this model hold no exponent, underscore, "inf" or "nan"):
\* [ok |-> FALSE] stands for ValueError.
ParseFloat(text) ==
    LET s == Strip(text)
        signed == s # << >> /\ Head(s) \in { "-", "+" }
        u == IF signed THEN Tail(s) ELSE s
        dots == { i \in 1..Len(u) : u[i] = "." }
        ip == IF dots = { } THEN u ELSE SubSeq(u, 1, (CHOOSE i \in dots : TRUE) - 1)
        fp == IF dots = { } THEN << >> ELSE SubSeq(u, (CHOOSE i \in dots : TRUE) + 1, Len(u))
        wellformed ==
            /\ Cardinality(dots) <= 1
            /\ \A i \in 1..Len(u) : IsDigit(u[i]) \/ u[i] = "."
            /\ Len(ip) + Len(fp) >= 1
        mag == DigitsValue(ip) * Pow10(Len(fp)) + DigitsValue(fp)
    IN  IF ~wellformed THEN [ok |-> FALSE, val |-> Num(0)]
        ELSE [ok |-> TRUE,
              val |-> Normal(IF signed /\ Head(s) = "-" THEN 0 - mag ELSE mag, Len(fp))]

UpperChars == << "A", "B", "C", "D", "E", "F", "G", "H", "I", "J", "K", "L", "M",
                 "N", "O", "P", "Q", "R", "S", "T", "U", "V", "W", "X", "Y", "Z" >>
LowerChars == << "a", "b", "c", "d", "e", "f", "g", "h", "i", "j", "k", "l", "m",
                 "n", "o", "p", "q", "r", "s", "t", "u", "v", "w", "x", "y", "z" >>
LowerChar(c) ==
    IF c \in Range(UpperChars)
    THEN LowerChars[CHOOSE i \in 1..Len(UpperChars) : UpperChars[i] = c]
    ELSE c

\* str.lower()
Lower(s) == [i \in 1..Len(s) |-> LowerChar(s[i])]

\* `sub in s`
Contains(s, sub) ==
    \E i \in 1..(Len(s) - Len(sub) + 1) : SubSeq(s, i, i + Len(sub) - 1) = sub

\* s.replace(c, '') for a one-character c
RECURSIVE Without(_, _)
Without(s, c) ==
    IF s = << >> THEN << >>
    ELSE IF Head(s) = c THEN Without(Tail(s), c)
    ELSE << Head(s) >> \o Without(Tail(s), c)

\* str.isdigit()
AllDigits(s) == s # << >> /\ \A i \in 1..Len(s) : IsDigit(s[i])

-----------------------------------------------------------------------------
(* transform_to_chartjs_format *)

PaletteSize == 8

EmptyChartData == [labels |-> << >>, datasets |-> << >>]

\* dict.get(key, default) on a row's cells: the first cell of that key
HasKey(cells, key) == \E i \in 1..Len(cells) : cells[i].k = key
GetCell(cells, key, default) ==
    IF HasKey(cells, key)
    THEN cells[CHOOSE i \in 1..Len(cells) : cells[i].k = key /\ \A j \in 1..(i - 1) : cells[j].k # key].v
    ELSE default

\* str(value)
TextOf(val) ==
    CASE val.t = "str" -> val.v
      [] val.t = "num" /\ val.e = 0 -> IntText(val.v)
      [] val.t = "num" /\ val.e > 0 -> DecimalText(val.v, val.e)
      [] val.t = "null" -> << "N", "o", "n", "e" >>

\* a variant that never parses a string value
DataValueUnparsed(cells, col) ==
    LET val == GetCell(cells, col, Num(0)) IN
    IF val.t = "num" THEN val ELSE Num(0)

\* lines 271-279: the value of one row for one dataset
DataValue(cells, col) ==
    LET val == GetCell(cells, col, Num(0)) IN
    CASE val.t = "num" -> val
      [] val.t = "str" /\ val.v # << >> ->
            IF ParseFloat(val.v).ok THEN ParseFloat(val.v).val ELSE Num(0)
      [] OTHER -> Num(0)

\* len(result_data) and result_data[:5] of the trace lines 241-242 raise on
\* null and numbers; a later row that is no mapping raises at row.get.
TransformRaises(execution_result) ==
    LET rd == execution_result.resultData IN
    \/ rd.t \in { "null", "num", "dict" }
    \/ /\ rd.t = "list" /\ rd.v # << >> /\ rd.v[1].t = "dict" /\ rd.v[1].v # << >>
       /\ \E i \in 1..Len(rd.v) : rd.v[i].t # "dict"

transform_to_chartjs_format(execution_result) ==
    LET rd == execution_result.resultData IN
    IF rd.t # "list" \/ rd.v = << >> THEN EmptyChartData
    ELSE IF rd.v[1].t # "dict" THEN EmptyChartData
    ELSE IF Len(rd.v[1].v) < 1 THEN EmptyChartData
    ELSE
        LET columns == [i \in 1..Len(rd.v[1].v) |-> rd.v[1].v[i].k]
            label_col == columns[1]
        IN  [labels |-> [r \in 1..Len(rd.v) |->
                            IF HasKey(rd.v[r].v, label_col)
                            THEN TextOf(GetCell(rd.v[r].v, label_col, Null))
                            ELSE << >>],
             datasets |-> [d \in 1..(Len(columns) - 1) |->
                            [label |-> columns[d + 1],
                             data |-> [r \in 1..Len(rd.v) |-> DataValue(rd.v[r].v, columns[d + 1])],
                             backgroundColor |-> [r \in 1..Len(rd.v) |-> (d - 1) % PaletteSize]]]]

-----------------------------------------------------------------------------
(* Charts and query specifications *)

\* One entry of query.select: a record, or (from a generative builder) a string.
SelRec(col, agg, as) == [t |-> "dict", column |-> col, aggregation |-> agg, as |-> as]
SelStr(name) == [t |-> "str", column |-> name, aggregation |-> NoKey, as |-> NoKey]

\* query.select: a list of entries, or what a generative builder may put
\* there instead: nothing, null, one bare string, one bare record.
SelList(items) == [t |-> "list", v |-> items]
SelBareStr(name) == [t |-> "str", v |-> << SelStr(name) >>]
SelBareRec(rec) == [t |-> "dict", v |-> << rec >>]
SelAbsent == [t |-> "absent", v |-> << >>]
SelNull == [t |-> "null", v |-> << >>]

OrderBy(col, dir) == [column |-> col, direction |-> dir]

Query(source, select, groupBy, orderBy, limit) ==
    [t |-> "dict", source |-> source, select |-> select, filters |-> << >>,
     groupBy |-> groupBy, orderBy |-> orderBy, limit |-> limit]
NoQuery == [t |-> "absent"]

NoData == [t |-> "absent"]
ChartData(d) == [t |-> "chartjs", v |-> d]
NoError == [t |-> "absent"]
ErrorText(parts) == [t |-> "str", v |-> parts]

Chart(prompt, id, type, query, enc) ==
    [user_prompt |-> prompt, chart_id |-> id, chart_type |-> type, query |-> query,
     encoding |-> enc, data |-> NoData, error |-> NoError]

Encoding(x, y, color) == [x |-> x, y |-> y, color |-> color]

\* `not chart.get("query")`
QueryMissing(chart) == chart.query.t \in { "absent", "null" }

ExecutionError(text) == ErrorText(<< "Execution error: " >> \o text)

\* lines 961-966: the columns named by the select entries that are records
QueryColumns(select) ==
    IF select.t # "list" THEN { }
    ELSE { select.v[i].column : i \in { j \in 1..Len(select.v) :
                select.v[j].t = "dict" /\ select.v[j].column \notin { NoKey, "" } } }

\* lines 972-973: keep the records whose column is known
RECURSIVE KeepValid(_, _)
KeepValid(items, names) ==
    IF items = << >> THEN << >>
    ELSE IF Head(items).t = "dict" /\ Head(items).column \in names
         THEN << Head(items) >> \o KeepValid(Tail(items), names)
         ELSE KeepValid(Tail(items), names)

\* lines 954-978 of api_execute_prompt: what one iteration does before the
\* execution.  do: "skip" (continue), "raise" (the loop body raised before
\* submitting) or "submit" (chart.query is handed to the client).
PrepareChart(chart, names, source) ==
    IF QueryMissing(chart) THEN [do |-> "skip", chart |-> chart]
    ELSE IF chart.query.select.t = "null" THEN [do |-> "raise", chart |-> chart]
    ELSE
        LET invalid_cols == QueryColumns(chart.query.select) \ names
            fixed == IF invalid_cols = { } THEN chart.query.select
                     ELSE SelList(KeepValid(chart.query.select.v, names))
            c1 == [chart EXCEPT !.query.select = fixed]
        IN  IF invalid_cols # { } /\ fixed.v = << >>
            THEN [do |-> "skip", chart |-> c1]
            ELSE [do |-> "submit", chart |-> [c1 EXCEPT !.query.source = source]]

\* line 982 reads len(resultData) before the transform
ResultLenRaises(payload) == payload.resultData.t \in { "null", "num" }

\* lines 981-998 of api_execute_prompt: the chart after its execution ended
FinishChart(chart, outcome) ==
    CASE outcome.kind = "completed"
            /\ ~ResultLenRaises(outcome.payload) /\ ~TransformRaises(outcome.payload) ->
            [chart EXCEPT !.data = ChartData(transform_to_chartjs_format(outcome.payload)),
                          !.error = Null]
      [] outcome.kind = "http_exception" ->
            [chart EXCEPT !.error = ErrorText(outcome.detail),
                          !.data = ChartData(EmptyChartData)]
      [] outcome.kind = "exception" ->
            [chart EXCEPT !.error = ExecutionError(outcome.detail),
                          !.data = ChartData(EmptyChartData)]
      [] OTHER ->
            [chart EXCEPT !.error = ExecutionError(<< "TypeError" >>),
                          !.data = ChartData(EmptyChartData)]

\* lines 994-998: the loop body raised before the execution
FailChart(chart) ==
    [chart EXCEPT !.error = ExecutionError(<< "TypeError" >>),
                  !.data = ChartData(EmptyChartData)]

\* PrepareChartBQ without the assignment of line 842: the builder's source stays
PrepareChartBQKeepingSource(chart) ==
    CASE chart.chart_id = NoKey -> [do |-> "escape", chart |-> chart]
      [] QueryMissing(chart) -> [do |-> "raise", chart |-> chart]
      [] OTHER -> [do |-> "submit", chart |-> chart]

\* lines 839-843 of api_build_queries: chart["query"], the source, the trace
\* line reading chart['chart_id'].  do: "submit", "raise" (caught by the
\* generic handler) or "escape" (the handler's own chart['chart_id'] raises).
PrepareChartBQ(chart) ==
    CASE chart.chart_id = NoKey -> [do |-> "escape", chart |-> chart]
      [] QueryMissing(chart) -> [do |-> "raise", chart |-> chart]
      [] OTHER -> [do |-> "submit", chart |-> [chart EXCEPT !.query.source = "elm4r7a.sales"]]

\* lines 844-854 of api_build_queries: the chart after its execution ended
FinishChartBQ(chart, outcome) ==
    CASE outcome.kind = "completed" /\ ~TransformRaises(outcome.payload) ->
            [chart EXCEPT !.data = ChartData(transform_to_chartjs_format(outcome.payload)),
                          !.error = Null]
      [] outcome.kind = "http_exception" -> [chart EXCEPT !.error = ErrorText(outcome.detail)]
      [] outcome.kind = "exception" -> [chart EXCEPT !.error = ExecutionError(outcome.detail)]
      [] OTHER -> [chart EXCEPT !.error = ExecutionError(<< "TypeError" >>)]

\* lines 852-854: the loop body raised before the execution
FailChartBQ(chart) == [chart EXCEPT !.error = ExecutionError(<< "KeyError" >>)]

-----------------------------------------------------------------------------
(* infer_column_type and build_schema_profile *)

DatePatterns ==
    { << "-" >>, << "/" >>, << "2", "0", "2", "0" >>, << "2", "0", "2", "1" >>,
      << "2", "0", "2", "2" >>, << "2", "0", "2", "3" >>, << "2", "0", "2", "4" >>,
      << "2", "0", "2", "5" >> }

BooleanWords ==
    { << "t", "r", "u", "e" >>, << "f", "a", "l", "s", "e" >>, << "y", "e", "s" >>,
      << "n", "o" >>, << "0" >>, << "1" >> }

\* line 70: the test counted per value
LooksNumeric(text) == AllDigits(Without(Without(Without(text, ","), "."), "-"))

infer_column_type(values) ==
    IF values = << >> THEN "unknown"
    ELSE
        LET str_values == [i \in 1..Len(SelectSeq(values, LAMBDA v : v.t # "null")) |->
                              TextOf(SelectSeq(values, LAMBDA v : v.t # "null")[i])]
            sample == str_values[1]
            numeric_count == Cardinality({ i \in 1..Len(str_values) : LooksNumeric(str_values[i]) })
            unique == Cardinality(Range(str_values))
        IN  IF str_values # << >> /\ ParseFloat(Without(sample, ",")).ok
               /\ 10 * numeric_count > 8 * Len(str_values)
            THEN "numeric"
            ELSE IF str_values # << >> /\ Len(sample) >= 8
                    /\ \E p \in DatePatterns : Contains(sample, p)
            THEN "date"
            ELSE IF str_values # << >> /\ \A i \in 1..Len(str_values) : Lower(str_values[i]) \in BooleanWords
            THEN "boolean"
            ELSE IF 10 * unique < 3 * (IF Len(str_values) > 1 THEN Len(str_values) ELSE 1)
            THEN "category"
            ELSE "string"

SampleRowsRead == 5
SamplesKept == 3

ColumnDescriptor(name, data_type) == [column_name |-> name, data_type |-> data_type]

\* lines 114-120: the non-blank values of the column in the first rows
RECURSIVE CollectSamples(_, _)
CollectSamples(rows, col_name) ==
    IF rows = << >> THEN << >>
    ELSE
        LET row == Head(rows)
            rest == CollectSamples(Tail(rows), col_name)
        IN  IF row.t = "dict" /\ HasKey(row.v, col_name)
               /\ GetCell(row.v, col_name, Null).t # "null"
               /\ Strip(TextOf(GetCell(row.v, col_name, Null))) # << >>
            THEN << GetCell(row.v, col_name, Null) >> \o rest
            ELSE rest

\* lines 123-132
ColumnType(col_type_raw, samples) ==
    LET low == Lower(col_type_raw) IN
    IF \E w \in { << "i", "n", "t" >>, << "f", "l", "o", "a", "t" >>,
                  << "d", "o", "u", "b", "l", "e" >>,
                  << "d", "e", "c", "i", "m", "a", "l" >> } : Contains(low, w)
    THEN "numeric"
    ELSE IF \E w \in { << "d", "a", "t", "e" >>, << "t", "i", "m", "e" >> } : Contains(low, w)
    THEN "date"
    ELSE IF Contains(low, << "b", "o", "o", "l" >>) THEN "boolean"
    ELSE IF samples # << >> THEN infer_column_type(samples)
    ELSE "string"

NoProfile == [t |-> "absent", columns |-> << >>, column_names |-> << >>]

RECURSIVE GCD(_, _)
GCD(a, b) == IF b = 0 THEN a ELSE GCD(b, a % b)

\* the quotient n / d of two integers (d > 0), in lowest terms
Ratio(n, d) ==
    LET g == GCD(Abs(n), d) IN [t |-> "ratio", n |-> n \div g, d |-> d \div g]

RECURSIVE SumOf(_)
SumOf(s) == IF s = << >> THEN 0 ELSE Head(s) + SumOf(Tail(s))

\* lines 144-151 over the values given: float(str(v).replace(',', '')) of each,
\* then min, max and sum / len, as exact numbers; one value that does not
\* parse raises inside the try and leaves the column without stats (line 152)
StatsOf(values) ==
    LET parsed == [i \in 1..Len(values) |-> ParseFloat(Without(TextOf(values[i]), ","))]
        E == MaxOf({ 0 } \cup { parsed[i].val.e : i \in 1..Len(values) })
        scaled == [i \in 1..Len(values) |-> parsed[i].val.v * Pow10(E - parsed[i].val.e)]
    IN  IF values = << >> \/ \E i \in 1..Len(values) : ~parsed[i].ok
        THEN Absent
        ELSE [t |-> "dict",
              min |-> Normal(MinOf(Range(scaled)), E),
              max |-> Normal(MaxOf(Range(scaled)), E),
              sample_avg |-> Ratio(SumOf(scaled), Len(values) * Pow10(E))]

\* sample_rows is a list of rows here: api_execute_prompt passes a slice of
\* resultData, and a slice that is no list of mappings yields no sample.
build_schema_profile(cols, rows) ==
    LET profile_columns ==
            [i \in 1..Len(cols) |->
                LET samples == CollectSamples(Prefix(rows, SampleRowsRead), cols[i].column_name)
                IN  [name |-> cols[i].column_name,
                     type |-> ColumnType(cols[i].data_type, samples),
                     samples |-> Prefix(samples, SamplesKept),
                     stats |-> IF ColumnType(cols[i].data_type, samples) = "numeric"
                               THEN StatsOf(samples)
                               ELSE Absent]]
    IN  [t |-> "dict", columns |-> profile_columns,
         column_names |-> [i \in 1..Len(cols) |-> profile_columns[i].name]]

-----------------------------------------------------------------------------
(* clean_llm_json *)

StartsWith(s, p) == Len(s) >= Len(p) /\ SubSeq(s, 1, Len(p)) = p
EndsWith(s, p) == Len(s) >= Len(p) /\ SubSeq(s, Len(s) - Len(p) + 1, Len(s)) = p
Drop(s, n) == SubSeq(s, n + 1, Len(s))

\* positions are 1-based; 0 stands for Python's -1
Positions(s, sub) == { i \in 1..(Len(s) - Len(sub) + 1) : SubSeq(s, i, i + Len(sub) - 1) = sub }
Find(s, sub) == IF Positions(s, sub) = { } THEN 0 ELSE MinOf(Positions(s, sub))
RFind(s, sub) == IF Positions(s, sub) = { } THEN 0 ELSE MaxOf(Positions(s, sub))

TagOpen == << "<", "s", ">" >>
TagClose == << "<", "/", "s", ">" >>
OutOpen == << "[", "O", "U", "T", "]" >>
OutClose == << "[", "/", "O", "U", "T", "]" >>
\* the backquote character, which a TLA+ string cannot hold
Tick == "tick"
Fence == << Tick, Tick, Tick >>
FenceJson == << Tick, Tick, Tick, "j", "s", "o", "n" >>
EmptyObjectText == << "{", "}" >>

\* re.sub(r'</?s>', '', content): one pass, left to right
RECURSIVE RemoveTags(_)
RemoveTags(s) ==
    IF s = << >> THEN << >>
    ELSE IF StartsWith(s, TagClose) THEN RemoveTags(Drop(s, Len(TagClose)))
    ELSE IF StartsWith(s, TagOpen) THEN RemoveTags(Drop(s, Len(TagOpen)))
    ELSE << Head(s) >> \o RemoveTags(Tail(s))

\* lines 316-319: the interior of the first [OUT]...[/OUT], stripped
Unwrap(s) ==
    LET open == Find(s, OutOpen)
        closes == { j \in Positions(s, OutClose) : j >= open + Len(OutOpen) }
    IN  IF open = 0 \/ closes = { } THEN s
        ELSE Strip(SubSeq(s, open + Len(OutOpen), MinOf(closes) - 1))

\* lines 322-330
Unfence(s) ==
    LET a == Strip(s)
        b == IF StartsWith(a, FenceJson) THEN Drop(a, Len(FenceJson))
             ELSE IF StartsWith(a, Fence) THEN Drop(a, Len(Fence))
             ELSE a
        c == IF EndsWith(b, Fence) THEN SubSeq(b, 1, Len(b) - Len(Fence)) ELSE b
    IN  Strip(c)

\* lines 334-357
BracketSpan(s) ==
    LET start_obj == Find(s, << "{" >>)
        start_arr == Find(s, << "[" >>)
        start_idx == IF start_obj = 0 THEN start_arr
                     ELSE IF start_arr = 0 THEN start_obj
                     ELSE Min(start_obj, start_arr)
        end_idx == IF s[start_idx] = "{" THEN RFind(s, << "}" >>) ELSE RFind(s, << "]" >>)
    IN  IF start_obj = 0 /\ start_arr = 0 THEN EmptyObjectText
        ELSE IF end_idx # 0 /\ end_idx > start_idx THEN Strip(SubSeq(s, start_idx, end_idx))
        ELSE Strip(s)

clean_llm_json(content) ==
    IF content = << >> THEN EmptyObjectText
    ELSE BracketSpan(Unfence(Unwrap(RemoveTags(Strip(content)))))

-----------------------------------------------------------------------------
(* json.loads on the texts of this model, and the documents it yields *)

\* A parsed document, as far as the callers read it: a mapping with the keys
\* intent, charts and chosen_charts (each possibly missing), or a list, or a
\* number.  A list-valued key is [t |-> "list", v |-> <<...>>].
Doc(intent, charts, chosen) ==
    [t |-> "dict", intent |-> intent, charts |-> charts, chosen_charts |-> chosen]
EmptyDoc == Doc(NoKey, Absent, Absent)
ListDoc == [t |-> "list", intent |-> NoKey, charts |-> Absent, chosen_charts |-> Absent]
NumDoc == [t |-> "num", intent |-> NoKey, charts |-> Absent, chosen_charts |-> Absent]
ListOf(items) == [t |-> "list", v |-> items]

\* The JSON grammar over texts that hold no quote, comma, colon or letter of
\* a literal: an empty object, a number, or an array of at most one value.
RECURSIVE IsJsonValue(_)
IsJsonValue(text) ==
    LET s == Strip(text) IN
    \/ s # << >> /\ Head(s) = "{" /\ s[Len(s)] = "}" /\ Len(s) >= 2
          /\ Strip(SubSeq(s, 2, Len(s) - 1)) = << >>
    \/ s # << >> /\ Head(s) = "[" /\ s[Len(s)] = "]" /\ Len(s) >= 2
          /\ \/ Strip(SubSeq(s, 2, Len(s) - 1)) = << >>
             \/ IsJsonValue(SubSeq(s, 2, Len(s) - 1))
    \/ AllDigits(s) /\ (Len(s) = 1 \/ Head(s) # "0")

\* [ok |-> FALSE] stands for json.JSONDecodeError
JsonLoads(text) ==
    LET s == Strip(text) IN
    IF ~IsJsonValue(s) THEN [ok |-> FALSE, doc |-> EmptyDoc]
    ELSE [ok |-> TRUE,
          doc |-> CASE Head(s) = "{" -> EmptyDoc
                    [] Head(s) = "[" -> ListDoc
                    [] OTHER -> NumDoc]

\* The generative service's reply to one completion request: the call raises,
\* or message.content is a text of the grammar above, or it is the JSON text
\* of a document (a text that clean_llm_json leaves whole and json.loads
\* reads back as that document).
LlmRaises == [kind |-> "exception", chars |-> << >>, doc |-> EmptyDoc]
LlmText(chars) == [kind |-> "text", chars |-> chars, doc |-> EmptyDoc]
LlmJson(doc) == [kind |-> "json", chars |-> << >>, doc |-> doc]

\* json.loads(clean_llm_json(content))
ParseContent(reply) ==
    IF reply.kind = "json" THEN [ok |-> TRUE, doc |-> reply.doc]
    ELSE JsonLoads(clean_llm_json(reply.chars))

-----------------------------------------------------------------------------
(* ChartSuggester *)

MaxSuggestions == 4
RawKept == 4

\* a candidate's encoding: a mapping whose x and y may be missing, or null
Enc(x, y) == [t |-> "dict", x |-> x, y |-> y]
NullEnc == [t |-> "null", x |-> NoKey, y |-> NoKey]
Candidate(id, name, enc) == [id |-> id, name |-> name, encoding |-> enc]

SuggestionRecord(prompt, cands) == [user_prompt |-> prompt, chosen_charts |-> cands]

\* `not schema_profile or not schema_profile.get("columns")`
Ungrounded(profile) == profile.t = "absent" \/ profile.columns = << >>

\* NamesOfType listing the columns last to first
NamesOfTypeReversed(profile, types) ==
    LET cols == SelectSeq(profile.columns, LAMBDA c : c.type \in types)
    IN  [i \in 1..Len(cols) |-> cols[Len(cols) + 1 - i].name]

\* lines 526-528: the names of the columns of the given types, in order
NamesOfType(profile, types) ==
    LET cols == SelectSeq(profile.columns, LAMBDA c : c.type \in types)
    IN  [i \in 1..Len(cols) |-> cols[i].name]

GenericSuggestions ==
    << Candidate("1", "bar_chart", Enc(NoKey, NoKey)),
       Candidate("9", "line_chart", Enc(NoKey, NoKey)),
       Candidate("6", "pie_chart", Enc(NoKey, NoKey)),
       Candidate("10", "big_number", Enc(NoKey, NoKey)) >>

\* lines 526-585: the candidates of one prompt
RuleSuggestions(profile) ==
    LET date_cols == NamesOfType(profile, { "date" })
        numeric_cols == NamesOfType(profile, { "numeric" })
        category_cols == NamesOfType(profile, { "category", "string" })
        r1 == IF date_cols # << >> /\ numeric_cols # << >>
              THEN << Candidate("9", "line_chart", Enc(date_cols[1], numeric_cols[1])) >>
              ELSE << >>
        r2 == IF category_cols # << >> /\ numeric_cols # << >>
              THEN << Candidate("1", "bar_chart", Enc(category_cols[1], numeric_cols[1])) >>
              ELSE << >>
        r3 == IF numeric_cols # << >>
              THEN << Candidate("4", "histogram", Enc(numeric_cols[1], NoKey)) >>
              ELSE << >>
        r4 == IF category_cols # << >> /\ numeric_cols # << >>
              THEN << Candidate("6", "pie_chart", Enc(category_cols[1], numeric_cols[1])) >>
              ELSE << >>
        r5 == IF Len(numeric_cols) >= 2
              THEN << Candidate("5", "scatter_plot", Enc(numeric_cols[1], numeric_cols[2])) >>
              ELSE << >>
        r6 == IF numeric_cols # << >>
              THEN << Candidate("10", "big_number", Enc(NoKey, numeric_cols[1])) >>
              ELSE << >>
    IN  Prefix(r1 \o r2 \o r3 \o r4 \o r5 \o r6, MaxSuggestions)

_generate_fallback_suggestions(prompts, profile) ==
    [i \in 1..Len(prompts) |->
        SuggestionRecord(prompts[i],
            IF Ungrounded(profile) THEN GenericSuggestions ELSE RuleSuggestions(profile))]

\* ColumnsKnown with the test of y left out of line 482
ColumnsKnownXOnly(cand, valid_columns) ==
    cand.encoding.x \in { NoKey, "" } \/ cand.encoding.x \in valid_columns

\* line 482
ColumnsKnown(cand, valid_columns) ==
    /\ cand.encoding.x \in { NoKey, "" } \/ cand.encoding.x \in valid_columns
    /\ cand.encoding.y \in { NoKey, "" } \/ cand.encoding.y \in valid_columns

\* lines 475-487
ValidatedCharts(chosen_charts, valid_columns) ==
    SelectSeq(chosen_charts, LAMBDA c : ColumnsKnown(c, valid_columns))

KeptCharts(chosen_charts, valid_columns) ==
    IF ValidatedCharts(chosen_charts, valid_columns) # << >>
    THEN ValidatedCharts(chosen_charts, valid_columns)
    ELSE Prefix(chosen_charts, RawKept)

\* lines 472-478 raise something other than KeyError / JSONDecodeError when
\* the document is no mapping or a candidate's encoding is null
ChosenCharts(doc) == IF doc.chosen_charts.t = "list" THEN doc.chosen_charts.v ELSE << >>
SuggestBodyRaises(doc) ==
    \/ doc.t # "dict"
    \/ \E i \in 1..Len(ChosenCharts(doc)) : ChosenCharts(doc)[i].encoding.t = "null"

\* lines 446-501: the path one iteration of suggest's loop takes
SuggestPath(reply, profile) ==
    CASE reply.kind = "exception" -> "exception_fallback"
      [] ~ParseContent(reply).ok -> "parse_fallback"
      [] SuggestBodyRaises(ParseContent(reply).doc) -> "exception_fallback"
      [] ValidatedCharts(ChosenCharts(ParseContent(reply).doc), Range(profile.column_names)) # << >> ->
            "validated"
      [] OTHER -> "raw"

\* lines 446-501: the record one iteration appends
SuggestOne(prompt, reply, profile) ==
    IF SuggestPath(reply, profile) \in { "exception_fallback", "parse_fallback" }
    THEN _generate_fallback_suggestions(<< prompt >>, profile)[1]
    ELSE SuggestionRecord(prompt,
            KeptCharts(ChosenCharts(ParseContent(reply).doc), Range(profile.column_names)))

-----------------------------------------------------------------------------
(* ChartValidatorAndQueryBuilder.build_final_charts and _build_fallback_charts *)

EmptyShape == Doc("visualization", ListOf(<< >>), Absent)

\* [raised |-> TRUE] stands for the HTTPException of line 700
build_final_charts(reply) ==
    CASE reply.kind = "exception" -> [raised |-> TRUE, value |-> EmptyShape]
      [] ~ParseContent(reply).ok -> [raised |-> FALSE, value |-> EmptyShape]
      [] OTHER -> [raised |-> FALSE, value |-> ParseContent(reply).doc]

MaxFallbackCharts == 4
PerSetLimit == 4
FallbackLimit == 20

\* `encoding.get("x") or ...`: a missing or empty value falls through
FirstOr(names, default) == IF names # << >> THEN names[1] ELSE default

FallbackChart(prompt, cand, profile, source) ==
    LET numeric_cols == NamesOfType(profile, { "numeric" })
        category_cols == NamesOfType(profile, { "category", "string" })
        date_cols == NamesOfType(profile, { "date" })
        x_col == IF cand.encoding.x \notin { NoKey, "" } THEN cand.encoding.x
                 ELSE FirstOr(category_cols, FirstOr(date_cols, NoKey))
        y_col == IF cand.encoding.y \notin { NoKey, "" } THEN cand.encoding.y
                 ELSE FirstOr(numeric_cols, NoKey)
        select_cols == (IF x_col # NoKey THEN << SelRec(x_col, NoKey, x_col) >> ELSE << >>)
                       \o << SelRec(y_col, "sum", y_col) >>
    IN  IF y_col = NoKey THEN << >>
        ELSE << Chart(prompt, cand.id, cand.name,
                      Query(source, SelList(select_cols),
                            IF x_col # NoKey THEN << x_col >> ELSE << >>,
                            << OrderBy(y_col, "desc") >>, Num(FallbackLimit)),
                      Encoding(IF x_col # NoKey THEN x_col ELSE "", y_col, "")) >>

RECURSIVE FallbackChartsOfSet(_, _, _, _)
FallbackChartsOfSet(prompt, cands, profile, source) ==
    IF cands = << >> THEN << >>
    ELSE FallbackChart(prompt, Head(cands), profile, source)
         \o FallbackChartsOfSet(prompt, Tail(cands), profile, source)

RECURSIVE FallbackChartsOf(_, _, _)
FallbackChartsOf(suggestions, profile, source) ==
    IF suggestions = << >> THEN << >>
    ELSE FallbackChartsOfSet(Head(suggestions).user_prompt,
                             Prefix(Head(suggestions).chosen_charts, PerSetLimit),
                             profile, source)
         \o FallbackChartsOf(Tail(suggestions), profile, source)

_build_fallback_charts(suggestions, profile, source) ==
    Doc("visualization",
        ListOf(Prefix(FallbackChartsOf(suggestions, profile, source), MaxFallbackCharts)),
        Absent)

-----------------------------------------------------------------------------
(* Requests: the inputs the operations are run on *)

MaxCharts == 2

VarcharType == << "V", "A", "R", "C", "H", "A", "R" >>
IntType == << "I", "N", "T", "E", "G", "E", "R" >>
DateType == << "d", "a", "t", "e" >>

ColumnsInputs ==
    { << >>,
      << ColumnDescriptor("Region", VarcharType), ColumnDescriptor("Sales", IntType) >>,
      << ColumnDescriptor("Date", DateType), ColumnDescriptor("Sales", << >>) >> }

RegionSales ==
    build_schema_profile(
        << ColumnDescriptor("Region", VarcharType), ColumnDescriptor("Sales", IntType) >>, << >>)

Prompts == << "p1", "p2", "p3" >>

\* charts a generative builder may return for a table with Region and Sales
GoodSelect == SelList(<< SelRec("Region", NoKey, "Region"), SelRec("Sales", "sum", "Sales") >>)
LlmQuery(select) == Query("uploaded_file", select, << "Region" >>, << OrderBy("Sales", "asc") >>, Null)
LlmChart(id, query) == Chart("p1", id, "bar_chart", query, Encoding("Region", "Sales", ""))

LlmCharts ==
    { LlmChart("c1", LlmQuery(GoodSelect)),
      LlmChart("c2", LlmQuery(SelList(<< SelRec("Region", NoKey, "Region"), SelRec("Profit", "sum", "Profit") >>))),
      LlmChart("c3", LlmQuery(SelList(<< SelRec("Profit", "sum", "Profit") >>))),
      LlmChart("c4", LlmQuery(SelBareStr("Region"))),
      LlmChart("c5", LlmQuery(SelList(<< SelStr("Region"), SelRec("Sales", "sum", "Sales") >>))),
      LlmChart("c6", LlmQuery(SelBareRec(SelRec("Sales", "sum", "Sales")))),
      LlmChart("c7", LlmQuery(SelNull)),
      LlmChart("c8", NoQuery),
      LlmChart(NoKey, LlmQuery(GoodSelect)) }

BuilderReplies ==
    { LlmRaises, LlmText(<< >>), LlmText(<< "{" >>), LlmText(<< "[", "]" >>) }
    \cup { LlmJson(Doc("visualization", ListOf(cs), Absent)) : cs \in SeqsUpTo(LlmCharts, MaxCharts) }

CandOk == Candidate("1", "bar_chart", Enc("Region", "Sales"))
CandBad == Candidate("6", "pie_chart", Enc("Region", "Profit"))
CandBare == Candidate("10", "big_number", Enc(NoKey, NoKey))

PipelineReplies ==
    { LlmRaises, LlmJson(Doc(NoKey, Absent, ListOf(<< CandOk, CandBad >>))),
      LlmJson(Doc(NoKey, Absent, ListOf(<< CandBad >>))) }

\* the executions the pipeline is run against
PipelineOutcomes ==
    { Returned(StatusJson("completed", NoKey, RowsList(<< RowAsia, RowEU >>))),
      Returned(StatusJson("completed", NoKey, Null)),
      HttpException(FailedDetail(StatusJson("failed", "boom", Absent))),
      HttpException(TimeoutDetail),
      HttpException(TransportDetail),
      HttpException(NoJobDetail) }

\* the executions the sample query is run against
SampleOutcomes ==
    { Returned(StatusJson("completed", NoKey, RowsList(<< RowAsia, RowEU >>))),
      HttpException(TimeoutDetail) }

-----------------------------------------------------------------------------
(* State *)

NoResult == EmptyDoc

Start(o, prompts) ==
    /\ op = o
    /\ pc = "start"
    /\ columns_data = << >>
    /\ sample_rows = << >>
    /\ schema_profile = NoProfile
    /\ user_prompts = prompts
    /\ results = << >>
    /\ paths = << >>
    /\ llm = << >>
    /\ result = NoResult
    /\ chart_i = 0
    /\ valid_charts = << >>
    /\ kept = << >>
    /\ built = << >>
    /\ submitted = << >>
    /\ outcomes = << >>
    /\ client = ClientIdle
    /\ response = "none"

Init ==
    \/ Start("execute_prompt", Prefix(Prompts, 1))
    \/ Start("build_queries", << >>)

\* final_result.get("charts", []) at lines 838 and 949
ChartsOf(r) == IF r.t = "dict" /\ r.charts.t = "list" THEN r.charts.v ELSE << >>
Charts == ChartsOf(result)
Source == "proj.tbl"
End(kind) == pc' = "done" /\ response' = kind

-----------------------------------------------------------------------------
(* api_execute_prompt *)

\* lines 870-876: fetch_table_columns returns the columns or raises
FetchSchema ==
    /\ op = "execute_prompt" /\ pc = "start"
    /\ \/ /\ End("http_error")
          /\ UNCHANGED columns_data
       \/ /\ columns_data' \in ColumnsInputs
          /\ pc' = "sample"
          /\ UNCHANGED response
    /\ UNCHANGED << op, sample_rows, schema_profile, user_prompts, results, paths, llm,
                    result, built, chart_i, valid_charts, kept, submitted, outcomes, client >>

\* lines 890-892 and 910-911: the rows kept of the sample query's outcome
SampleRowsOf(outcome) ==
    IF outcome.kind = "completed" /\ outcome.payload.resultData.t = "list"
    THEN Prefix(outcome.payload.resultData.v, SampleRowsRead)
    ELSE << >>

\* FetchSamples without the handler of line 909: a failed sample query ends
\* the request
FetchSamplesEndingOnFailure ==
    /\ op = "execute_prompt" /\ pc = "sample"
    /\ \E o \in SampleOutcomes :
          /\ client' = ClientEnd(ClientIdle, o)
          /\ IF o.kind = "completed"
             THEN /\ sample_rows' = SampleRowsOf(o)
                  /\ schema_profile' = build_schema_profile(columns_data, SampleRowsOf(o))
                  /\ pc' = "suggest"
                  /\ UNCHANGED response
             ELSE End("http_error") /\ UNCHANGED << sample_rows, schema_profile >>
    /\ UNCHANGED << op, columns_data, user_prompts, results, paths, llm, result, built, chart_i,
                    valid_charts, kept, submitted, outcomes >>

\* lines 880-913: the sample query, then the profile
FetchSamples ==
    /\ op = "execute_prompt" /\ pc = "sample"
    /\ \E o \in SampleOutcomes :
          /\ sample_rows' = SampleRowsOf(o)
          /\ schema_profile' = build_schema_profile(columns_data, SampleRowsOf(o))
          /\ client' = ClientEnd(ClientIdle, o)
    /\ pc' = "suggest"
    /\ UNCHANGED << op, columns_data, user_prompts, results, paths, llm, result, built, chart_i,
                    valid_charts, kept, submitted, outcomes, response >>

-----------------------------------------------------------------------------
(* ChartSuggester.suggest, one step per generative call *)

MaxPrompts == 2
MaxCandidates == 5

\* candidate lists a reply may carry: any mix of known and unknown columns,
\* and single candidates of the other shapes
CandXOnly == Candidate("4", "histogram", Enc("Sales", NoKey))
CandBadY == Candidate("9", "line_chart", Enc("", "Profit"))
CandNullEnc == Candidate("1", "bar_chart", NullEnc)

\* the i-th candidate of a reply; its y column is unknown when bad
CandAt(i, bad) ==
    Candidate(DigitChars[i + 1], "bar_chart", Enc("Region", IF bad THEN "Profit" ELSE "Sales"))

BadPositions(n) ==
    { {}, 1..n, { i \in 1..n : i = 1 }, { i \in 1..n : i = n }, { i \in 1..n : i % 2 = 0 } }

CandidateLists ==
    UNION { { [i \in 1..n |-> CandAt(i, i \in bad)] : bad \in BadPositions(n) } : n \in 0..MaxCandidates }
    \cup { << c >> : c \in { CandBare, CandXOnly, CandBadY, CandNullEnc } }
    \cup { << CandBad, CandBare >>, << CandOk, CandNullEnc >> }

SuggestReplies ==
    { LlmRaises, LlmText(<< >>), LlmText(<< "{" >>), LlmText(<< "[", "]" >>),
      LlmJson(ListDoc), LlmJson(EmptyDoc) }
    \cup { LlmJson(Doc(NoKey, Absent, ListOf(cs))) : cs \in CandidateLists }

DateRevenue ==
    build_schema_profile(
        << ColumnDescriptor("Date", DateType), ColumnDescriptor("Revenue", IntType) >>, << >>)

SuggestProfiles ==
    { NoProfile, build_schema_profile(<< >>, << >>), RegionSales, DateRevenue }

InitSuggest ==
    \E n \in 0..MaxPrompts, profile \in SuggestProfiles :
        /\ op = "suggest"
        /\ pc = "suggest"
        /\ columns_data = << >>
        /\ sample_rows = << >>
        /\ schema_profile = profile
        /\ user_prompts = Prefix(Prompts, n)
        /\ results = << >>
        /\ paths = << >>
        /\ llm = << >>
        /\ result = NoResult
        /\ chart_i = 0
        /\ valid_charts = << >>
        /\ kept = << >>
        /\ built = << >>
        /\ submitted = << >>
        /\ outcomes = << >>
        /\ client = ClientIdle
        /\ response = "none"

Replies == IF op = "suggest" THEN SuggestReplies ELSE PipelineReplies

\* where suggest's caller goes on
Suggested ==
    IF op = "suggest" THEN End("returned") ELSE pc' = "build" /\ UNCHANGED response

\* lines 441-443: no profile, or a profile without columns
SuggestUngrounded ==
    /\ pc = "suggest" /\ Ungrounded(schema_profile)
    /\ results' = _generate_fallback_suggestions(user_prompts, schema_profile)
    /\ paths' = [i \in 1..Len(user_prompts) |-> "no_profile"]
    /\ Suggested
    /\ UNCHANGED << op, columns_data, sample_rows, schema_profile, user_prompts, llm, result, built,
                    chart_i, valid_charts, kept, submitted, outcomes, client >>

\* SuggestPrompt with a handler that answers a failure by the fallback
\* records of every prompt seen so far, in place of line 500's fallback[0]
SuggestPromptFallbackForAll ==
    /\ pc = "suggest" /\ ~Ungrounded(schema_profile)
    /\ Len(results) < Len(user_prompts)
    /\ \E reply \in Replies :
          /\ results' =
                IF SuggestPath(reply, schema_profile) \in { "exception_fallback", "parse_fallback" }
                THEN _generate_fallback_suggestions(
                         Prefix(user_prompts, Len(results) + 1), schema_profile)
                ELSE Append(results,
                            SuggestOne(user_prompts[Len(results) + 1], reply, schema_profile))
          /\ paths' = Append(paths, SuggestPath(reply, schema_profile))
          /\ llm' = Append(llm, reply)
    /\ UNCHANGED << op, pc, columns_data, sample_rows, schema_profile, user_prompts, result, built,
                    chart_i, valid_charts, kept, submitted, outcomes, client, response >>

\* lines 445-501: one iteration of the loop over the prompts
SuggestPrompt ==
    /\ pc = "suggest" /\ ~Ungrounded(schema_profile)
    /\ Len(results) < Len(user_prompts)
    /\ \E reply \in Replies :
          /\ results' = Append(results,
                            SuggestOne(user_prompts[Len(results) + 1], reply, schema_profile))
          /\ paths' = Append(paths, SuggestPath(reply, schema_profile))
          /\ llm' = Append(llm, reply)
    /\ UNCHANGED << op, pc, columns_data, sample_rows, schema_profile, user_prompts, result, built,
                    chart_i, valid_charts, kept, submitted, outcomes, client, response >>

\* line 503
SuggestReturn ==
    /\ pc = "suggest" /\ ~Ungrounded(schema_profile)
    /\ Len(results) = Len(user_prompts)
    /\ Suggested
    /\ UNCHANGED << op, columns_data, sample_rows, schema_profile, user_prompts, results,
                    paths, llm, result, built, chart_i, valid_charts, kept, submitted, outcomes, client >>

-----------------------------------------------------------------------------
(* api_execute_prompt, the build and execution stages *)

\* BuildCharts with the fallback builder also taking over an empty result
BuildChartsFallbackOnEmpty ==
    /\ op = "execute_prompt" /\ pc = "build"
    /\ \E reply \in BuilderReplies :
          LET parsed == build_final_charts(reply)
              fall == parsed.raised \/ parsed.value = EmptyShape
              r == IF fall
                   THEN _build_fallback_charts(results, schema_profile, Source)
                   ELSE parsed.value
          IN  /\ result' = r
              /\ built' = ChartsOf(r)
              /\ llm' = Append(llm, reply)
              /\ paths' = Append(paths, IF fall THEN "fallback_builder" ELSE "builder")
              /\ IF r.t = "dict"
                 THEN pc' = "charts" /\ UNCHANGED response
                 ELSE End("unhandled")
    /\ UNCHANGED << op, columns_data, sample_rows, schema_profile, user_prompts, results,
                    chart_i, valid_charts, kept, submitted, outcomes, client >>

\* lines 938-946: the primary builder, or the fallback builder when it raises
BuildCharts ==
    /\ op = "execute_prompt" /\ pc = "build"
    /\ \E reply \in BuilderReplies :
          LET parsed == build_final_charts(reply)
              r == IF parsed.raised
                   THEN _build_fallback_charts(results, schema_profile, Source)
                   ELSE parsed.value
          IN  /\ result' = r
              /\ built' = ChartsOf(r)
              /\ llm' = Append(llm, reply)
              /\ paths' = Append(paths, IF parsed.raised THEN "fallback_builder" ELSE "builder")
              /\ IF r.t = "dict"
                 THEN pc' = "charts" /\ UNCHANGED response
                 ELSE End("unhandled")
    /\ UNCHANGED << op, columns_data, sample_rows, schema_profile, user_prompts, results,
                    chart_i, valid_charts, kept, submitted, outcomes, client >>

SetChart(i, chart) == [result EXCEPT !.charts.v[i] = chart]
Submission(i, chart) == [i |-> i, query |-> chart.query]

\* ExecuteChart without the appends of lines 993 and 998: a chart whose
\* execution failed is left out of the response
ExecuteChartDroppingFailed ==
    /\ op = "execute_prompt" /\ pc = "charts" /\ chart_i < Len(Charts)
    /\ LET i == chart_i + 1
           prep == PrepareChart(Charts[i], Range(schema_profile.column_names), Source)
       IN  \/ /\ prep.do = "skip"
              /\ result' = SetChart(i, prep.chart)
              /\ UNCHANGED << valid_charts, kept, submitted, outcomes >>
           \/ /\ prep.do = "raise"
              /\ result' = SetChart(i, FailChart(prep.chart))
              /\ UNCHANGED << valid_charts, kept, submitted, outcomes >>
           \/ /\ prep.do = "submit"
              /\ \E o \in PipelineOutcomes :
                    /\ result' = SetChart(i, FinishChart(prep.chart, o))
                    /\ outcomes' = Append(outcomes, o)
                    /\ IF FinishChart(prep.chart, o).error = Null
                       THEN /\ valid_charts' = Append(valid_charts, FinishChart(prep.chart, o))
                            /\ kept' = Append(kept, i)
                       ELSE UNCHANGED << valid_charts, kept >>
              /\ submitted' = Append(submitted, Submission(i, prep.chart))
    /\ chart_i' = chart_i + 1
    /\ UNCHANGED << op, pc, columns_data, sample_rows, schema_profile, user_prompts, results,
                    paths, llm, built, client, response >>

\* lines 952-998: one iteration of the loop over the charts
ExecuteChart ==
    /\ op = "execute_prompt" /\ pc = "charts" /\ chart_i < Len(Charts)
    /\ LET i == chart_i + 1
           prep == PrepareChart(Charts[i], Range(schema_profile.column_names), Source)
       IN  \/ /\ prep.do = "skip"
              /\ result' = SetChart(i, prep.chart)
              /\ UNCHANGED << valid_charts, kept, submitted, outcomes >>
           \/ /\ prep.do = "raise"
              /\ result' = SetChart(i, FailChart(prep.chart))
              /\ valid_charts' = Append(valid_charts, FailChart(prep.chart))
              /\ kept' = Append(kept, i)
              /\ UNCHANGED << submitted, outcomes >>
           \/ /\ prep.do = "submit"
              /\ \E o \in PipelineOutcomes :
                    /\ result' = SetChart(i, FinishChart(prep.chart, o))
                    /\ valid_charts' = Append(valid_charts, FinishChart(prep.chart, o))
                    /\ outcomes' = Append(outcomes, o)
              /\ kept' = Append(kept, i)
              /\ submitted' = Append(submitted, Submission(i, prep.chart))
    /\ chart_i' = chart_i + 1
    /\ UNCHANGED << op, pc, columns_data, sample_rows, schema_profile, user_prompts, results,
                    paths, llm, built, client, response >>

\* lines 1000-1002
ReturnCharts ==
    /\ op = "execute_prompt" /\ pc = "charts" /\ chart_i = Len(Charts)
    /\ result' = [result EXCEPT !.charts = ListOf(valid_charts)]
    /\ End("returned")
    /\ UNCHANGED << op, columns_data, sample_rows, schema_profile, user_prompts, results,
                    paths, llm, built, chart_i, valid_charts, kept, submitted, outcomes, client >>

-----------------------------------------------------------------------------
(* api_build_queries *)

\* line 821: the primary builder; its HTTPException ends the request
BuildQueries ==
    /\ op = "build_queries" /\ pc = "start"
    /\ \E reply \in BuilderReplies :
          LET parsed == build_final_charts(reply) IN
          IF parsed.raised THEN End("http_error") /\ UNCHANGED << result, built >>
          ELSE /\ result' = parsed.value
               /\ built' = ChartsOf(parsed.value)
               /\ IF parsed.value.t = "dict"
                  THEN pc' = "charts" /\ UNCHANGED response
                  ELSE End("unhandled")
    /\ UNCHANGED << op, columns_data, sample_rows, schema_profile, user_prompts, results,
                    paths, llm, chart_i, valid_charts, kept, submitted, outcomes, client >>

\* lines 838-854: one iteration of the loop over the charts
ExecuteChartBQ ==
    /\ op = "build_queries" /\ pc = "charts" /\ chart_i < Len(Charts)
    /\ LET i == chart_i + 1
           prep == PrepareChartBQ(Charts[i])
       IN  \/ /\ prep.do = "escape"
              /\ End("unhandled")
              /\ UNCHANGED << result, submitted, outcomes, chart_i >>
           \/ /\ prep.do = "raise"
              /\ result' = SetChart(i, FailChartBQ(prep.chart))
              /\ chart_i' = chart_i + 1
              /\ UNCHANGED << pc, response, submitted, outcomes >>
           \/ /\ prep.do = "submit"
              /\ \E o \in PipelineOutcomes :
                    /\ result' = SetChart(i, FinishChartBQ(prep.chart, o))
                    /\ outcomes' = Append(outcomes, o)
              /\ submitted' = Append(submitted, Submission(i, prep.chart))
              /\ chart_i' = chart_i + 1
              /\ UNCHANGED << pc, response >>
    /\ UNCHANGED << op, columns_data, sample_rows, schema_profile, user_prompts, results,
                    paths, llm, built, valid_charts, kept, client >>

\* line 859
ReturnChartsBQ ==
    /\ op = "build_queries" /\ pc = "charts" /\ chart_i = Len(Charts)
    /\ End("returned")
    /\ UNCHANGED << op, columns_data, sample_rows, schema_profile, user_prompts, results,
                    paths, llm, result, built, chart_i, valid_charts, kept, submitted, outcomes, client >>

-----------------------------------------------------------------------------
(* execute_query_on_datalake under its callers, one step per request or sleep *)

ClientChartLists ==
    { << LlmChart("c1", LlmQuery(GoodSelect)) >>,
      << LlmChart("c1", LlmQuery(GoodSelect)), LlmChart("c4", LlmQuery(SelBareStr("Region"))) >>,
      << LlmChart("c8", NoQuery), LlmChart("c1", LlmQuery(GoodSelect)) >> }

InitClient ==
    /\ op \in { "execute_prompt", "build_queries" }
    /\ \/ /\ op = "execute_prompt" /\ pc = "sample"
          /\ columns_data \in ColumnsInputs
          /\ schema_profile = NoProfile
          /\ result = NoResult
          /\ built = << >>
       \/ /\ pc = "charts"
          /\ columns_data = << >>
          /\ schema_profile = RegionSales
          /\ \E cs \in ClientChartLists :
                /\ result = Doc("visualization", ListOf(cs), Absent)
                /\ built = cs
    /\ sample_rows = << >>
    /\ user_prompts = Prefix(Prompts, 1)
    /\ results = << >>
    /\ paths = << >>
    /\ llm = << >>
    /\ chart_i = 0
    /\ valid_charts = << >>
    /\ kept = << >>
    /\ submitted = << >>
    /\ outcomes = << >>
    /\ client = ClientIdle
    /\ response = "none"

Calling == [ClientIdle EXCEPT !.cpc = "submit"]

\* line 890: the sample query is handed to the client
CallForSamples ==
    /\ op = "execute_prompt" /\ pc = "sample" /\ client.cpc = "idle"
    /\ client' = Calling
    /\ pc' = "sample_call"
    /\ UNCHANGED << op, columns_data, sample_rows, schema_profile, user_prompts, results,
                    paths, llm, result, built, chart_i, valid_charts, kept, submitted, outcomes, response >>

\* lines 952-981: an iteration up to the call of the client
CallForChart ==
    /\ op = "execute_prompt" /\ pc = "charts" /\ chart_i < Len(Charts)
    /\ LET i == chart_i + 1
           prep == PrepareChart(Charts[i], Range(schema_profile.column_names), Source)
       IN  \/ /\ prep.do = "skip"
              /\ result' = SetChart(i, prep.chart)
              /\ chart_i' = chart_i + 1
              /\ UNCHANGED << pc, valid_charts, kept, submitted, client >>
           \/ /\ prep.do = "raise"
              /\ result' = SetChart(i, FailChart(prep.chart))
              /\ valid_charts' = Append(valid_charts, FailChart(prep.chart))
              /\ kept' = Append(kept, i)
              /\ chart_i' = chart_i + 1
              /\ UNCHANGED << pc, submitted, client >>
           \/ /\ prep.do = "submit"
              /\ result' = SetChart(i, prep.chart)
              /\ submitted' = Append(submitted, Submission(i, prep.chart))
              /\ client' = Calling
              /\ pc' = "chart_call"
              /\ UNCHANGED << chart_i, valid_charts, kept >>
    /\ UNCHANGED << op, columns_data, sample_rows, schema_profile, user_prompts, results,
                    paths, llm, built, outcomes, response >>

\* lines 838-844: an iteration up to the call of the client
CallForChartBQ ==
    /\ op = "build_queries" /\ pc = "charts" /\ chart_i < Len(Charts)
    /\ LET i == chart_i + 1
           prep == PrepareChartBQ(Charts[i])
       IN  \/ /\ prep.do = "escape"
              /\ End("unhandled")
              /\ UNCHANGED << result, submitted, chart_i, client >>
           \/ /\ prep.do = "raise"
              /\ result' = SetChart(i, FailChartBQ(prep.chart))
              /\ chart_i' = chart_i + 1
              /\ UNCHANGED << pc, response, submitted, client >>
           \/ /\ prep.do = "submit"
              /\ result' = SetChart(i, prep.chart)
              /\ submitted' = Append(submitted, Submission(i, prep.chart))
              /\ client' = Calling
              /\ pc' = "chart_call"
              /\ UNCHANGED << chart_i, response >>
    /\ UNCHANGED << op, columns_data, sample_rows, schema_profile, user_prompts, results,
                    paths, llm, built, valid_charts, kept, outcomes >>

ClientStep(c) ==
    /\ client' = c
    /\ UNCHANGED << op, pc, columns_data, sample_rows, schema_profile, user_prompts, results,
                    paths, llm, result, built, chart_i, valid_charts, kept, submitted, outcomes, response >>

\* lines 177-186
ClientSubmit == client.cpc = "submit" /\ \E ans \in SubmitAnswers : ClientStep(SubmitQuery(client, ans))

\* lines 190-203
ClientPoll == client.cpc = "poll" /\ \E ans \in PollAnswers : ClientStep(PollStatus(client, ans))

\* lines 205-207
ClientSleep == client.cpc = "sleep" /\ ClientStep(AfterSleep(client))

\* lines 891-913: the sample call returned or raised
SamplesBack ==
    /\ pc = "sample_call" /\ client.cpc = "ended"
    /\ sample_rows' = SampleRowsOf(client.outcome)
    /\ schema_profile' = build_schema_profile(columns_data, SampleRowsOf(client.outcome))
    /\ outcomes' = Append(outcomes, client.outcome)
    /\ pc' = "suggest"
    /\ client' = ClientIdle
    /\ UNCHANGED << op, columns_data, user_prompts, results, paths, llm, result, built, chart_i,
                    valid_charts, kept, submitted, response >>

\* lines 982-998: the call for a chart returned or raised
ChartBack ==
    /\ op = "execute_prompt" /\ pc = "chart_call" /\ client.cpc = "ended"
    /\ LET i == chart_i + 1 IN
          /\ result' = SetChart(i, FinishChart(Charts[i], client.outcome))
          /\ valid_charts' = Append(valid_charts, FinishChart(Charts[i], client.outcome))
          /\ kept' = Append(kept, i)
    /\ outcomes' = Append(outcomes, client.outcome)
    /\ chart_i' = chart_i + 1
    /\ pc' = "charts"
    /\ client' = ClientIdle
    /\ UNCHANGED << op, columns_data, sample_rows, schema_profile, user_prompts, results,
                    paths, llm, built, submitted, response >>

\* lines 845-854: the call for a chart returned or raised
ChartBackBQ ==
    /\ op = "build_queries" /\ pc = "chart_call" /\ client.cpc = "ended"
    /\ result' = SetChart(chart_i + 1, FinishChartBQ(Charts[chart_i + 1], client.outcome))
    /\ outcomes' = Append(outcomes, client.outcome)
    /\ chart_i' = chart_i + 1
    /\ pc' = "charts"
    /\ client' = ClientIdle
    /\ UNCHANGED << op, columns_data, sample_rows, schema_profile, user_prompts, results,
                    paths, llm, built, valid_charts, kept, submitted, response >>

-----------------------------------------------------------------------------
(* _generate_fallback_suggestions on its own *)

MaxColumns == 3

\* the types build_schema_profile gives a column
ColumnTypes == { "numeric", "date", "category", "string", "boolean" }

ColumnName(i) == DigitChars[i + 1]

\* a profile whose i-th column has the i-th type
ProfileOfTypes(types) ==
    [t |-> "dict",
     columns |-> [i \in 1..Len(types) |-> [name |-> ColumnName(i), type |-> types[i],
                                            samples |-> << >>, stats |-> Absent]],
     column_names |-> [i \in 1..Len(types) |-> ColumnName(i)]]

FallbackProfiles ==
    { NoProfile } \cup { ProfileOfTypes(types) : types \in SeqsUpTo(ColumnTypes, MaxColumns) }

Blank(o) ==
    /\ op = o
    /\ pc = "start"
    /\ paths = << >>
    /\ result = NoResult
    /\ chart_i = 0
    /\ valid_charts = << >>
    /\ kept = << >>
    /\ built = << >>
    /\ submitted = << >>
    /\ outcomes = << >>
    /\ response = "none"

InitFallback ==
    /\ Blank("fallback")
    /\ columns_data = << >>
    /\ sample_rows = << >>
    /\ client = ClientIdle
    /\ results = << >>
    /\ llm = << >>
    /\ schema_profile \in FallbackProfiles
    /\ \E n \in 0..MaxPrompts : user_prompts = Prefix(Prompts, n)

\* lines 505-587
Fallback ==
    /\ op = "fallback" /\ pc = "start"
    /\ results' = _generate_fallback_suggestions(user_prompts, schema_profile)
    /\ End("returned")
    /\ UNCHANGED << op, columns_data, sample_rows, schema_profile, user_prompts, paths, llm,
                    result, built, chart_i, valid_charts, kept, submitted, outcomes, client >>

-----------------------------------------------------------------------------
(* _build_fallback_charts on its own *)

\* the i-th candidate of a set: with an encoding of its own, or with none
CandOwn(i) == Candidate(DigitChars[i + 1], "bar_chart", Enc("X", "Y"))
CandNone(i) == Candidate(DigitChars[i + 1], "big_number", Enc(NoKey, NoKey))

\* candidate sets as suggest or the rule-based fallback may hand them over
FallbackCandidateLists ==
    UNION { { [i \in 1..n |-> IF i \in own THEN CandOwn(i) ELSE CandNone(i)] :
                own \in SUBSET (1..n) } : n \in 0..MaxCandidates }
    \cup { << Candidate("4", "histogram", Enc("X", NoKey)) >>,
           << Candidate("10", "big_number", Enc("", "Y")) >> }

SecondSets ==
    { << >>, << SuggestionRecord("p2", << CandOwn(1), CandNone(2) >>) >> }

\* profiles of at most two columns; execute-prompt always has a profile
BuilderProfiles ==
    { ProfileOfTypes(types) : types \in SeqsUpTo(ColumnTypes \ { "boolean" }, 2) }

InitFallbackCharts ==
    /\ Blank("fallback_charts")
    /\ columns_data = << >>
    /\ sample_rows = << >>
    /\ client = ClientIdle
    /\ llm = << >>
    /\ user_prompts = << >>
    /\ schema_profile \in BuilderProfiles
    /\ \E cands \in FallbackCandidateLists, more \in SecondSets :
          results = << SuggestionRecord("p1", cands) >> \o more

\* lines 1005-1048
FallbackCharts ==
    /\ op = "fallback_charts" /\ pc = "start"
    /\ result' = _build_fallback_charts(results, schema_profile, Source)
    /\ End("returned")
    /\ UNCHANGED << op, columns_data, sample_rows, schema_profile, user_prompts, results, paths,
                    llm, built, chart_i, valid_charts, kept, submitted, outcomes, client >>

-----------------------------------------------------------------------------
(* transform_to_chartjs_format on its own *)

MaxRows == 2

RowKeys == << "Region", "Sales" >>

\* a number, a word, a numeric literal, the empty string, null
RowValues ==
    { Num(100), Str(<< "E", "U" >>), Str(<< "5", "0" >>), Str(<< >>), Null }

\* mappings of at most two keys, in either key order
RowMappings ==
    { Row(<< >>) }
    \cup { Row(<< Cell(k, v) >>) : k \in Range(RowKeys), v \in RowValues }
    \cup { Row(<< Cell(RowKeys[a], v), Cell(RowKeys[3 - a], w) >>) :
                a \in 1..2, v \in RowValues, w \in RowValues }

\* every shape resultData may have: lists of mappings, lists that start with
\* or contain something else, and values that are no list
TransformDatas ==
    ResultDatas
    \cup { RowsList(rows) : rows \in SeqsUpTo(RowMappings, MaxRows) }
    \cup { RowsList(<< Str(<< "x" >>), RowAsia >>), RowsList(<< Null >>),
           RowsList(<< RowAsia, Num(7) >>), RowsList(<< Row(<< >>), Num(7) >>),
           Str(<< >>), Num(0), Row(<< >>), RowAsia }

InitTransform ==
    /\ Blank("transform")
    /\ columns_data = << >>
    /\ sample_rows = << >>
    /\ results = << >>
    /\ llm = << >>
    /\ user_prompts = << >>
    /\ schema_profile = NoProfile
    /\ \E rd \in TransformDatas : client = ClientEnd(ClientIdle, Returned(StatusJson("completed", NoKey, rd)))

\* lines 238-296, applied to the payload the client returned
Transform ==
    /\ op = "transform" /\ pc = "start"
    /\ IF TransformRaises(client.outcome.payload)
       THEN End("raised") /\ UNCHANGED result
       ELSE End("returned") /\ result' = ChartData(transform_to_chartjs_format(client.outcome.payload))
    /\ UNCHANGED << op, columns_data, sample_rows, schema_profile, user_prompts, results, paths,
                    llm, built, chart_i, valid_charts, kept, submitted, outcomes, client >>

-----------------------------------------------------------------------------
(* build_schema_profile on its own *)

\* descriptors over two names and three declared types; names may repeat
Descriptors ==
    { ColumnDescriptor(n, ty) : n \in { "Region", "Sales" }, ty \in { VarcharType, IntType, << >> } }

SalesRow(v) == Row(<< Cell("Region", Str(<< "E", "U" >>)), Cell("Sales", v) >>)

\* no rows, two rows, a row that is no mapping, five rows of numbers, rows
\* with a decimal literal, and rows with a value that is no number
ProfileRows ==
    { << >>, << RowAsia, RowEU >>, << Num(7), RowEU >>,
      << SalesRow(Num(100)), SalesRow(Num(50)), SalesRow(Num(10)), SalesRow(Num(1)),
         SalesRow(Num(500)), SalesRow(Num(9000)) >>,
      << SalesRow(Str(<< "1", ".", "5" >>)), SalesRow(Str(<< "1", ",", "0", "0", "0" >>)),
         SalesRow(Null), SalesRow(Num(2)) >>,
      << SalesRow(Num(3)), SalesRow(Str(<< "N", "/", "A" >>)) >> }

InitProfile ==
    /\ Blank("profile")
    /\ client = ClientIdle
    /\ results = << >>
    /\ llm = << >>
    /\ user_prompts = << >>
    /\ schema_profile = NoProfile
    /\ columns_data \in SeqsUpTo(Descriptors, MaxColumns)
    /\ sample_rows \in ProfileRows

\* lines 106-169
Profile ==
    /\ op = "profile" /\ pc = "start"
    /\ schema_profile' = build_schema_profile(columns_data, sample_rows)
    /\ End("returned")
    /\ UNCHANGED << op, columns_data, sample_rows, user_prompts, results, paths, llm, result,
                    built, chart_i, valid_charts, kept, submitted, outcomes, client >>

-----------------------------------------------------------------------------
(* infer_column_type on its own *)

MaxValues == 6

\* a number, a word with a slash, a date, a boolean word, and None
SampleValues ==
    { Str(<< "1" >>), Str(<< "N", "/", "A" >>),
      Str(<< "2", "0", "2", "4", "-", "0", "1", "-", "0", "5" >>),
      Str(<< "y", "e", "s" >>), Null }

\* sample_rows holds the sample values of one column
InitInfer ==
    /\ Blank("infer")
    /\ client = ClientIdle
    /\ results = << >>
    /\ llm = << >>
    /\ user_prompts = << >>
    /\ schema_profile = NoProfile
    /\ columns_data = << >>
    /\ sample_rows \in SeqsUpTo(SampleValues, MaxValues)

\* lines 55-89
Infer ==
    /\ op = "infer" /\ pc = "start"
    /\ result' = [t |-> "tag", v |-> infer_column_type(sample_rows)]
    /\ End("returned")
    /\ UNCHANGED << op, columns_data, sample_rows, schema_profile, user_prompts, results, paths,
                    llm, built, chart_i, valid_charts, kept, submitted, outcomes, client >>

-----------------------------------------------------------------------------
(* build_final_charts on its own *)

MaxText == 3

BodyChars == { "{", "}", "[", "]", "1", " ", "x" }

\* what a reply may put around its body
Wrappers ==
    { << << >>, << >> >>, << FenceJson, Fence >>, << Fence, Fence >>,
      << TagOpen, TagClose >>, << OutOpen, OutClose >> }

BuildTexts ==
    { w[1] \o body \o w[2] : w \in Wrappers, body \in SeqsUpTo(BodyChars, MaxText) }

BuildReplies ==
    { LlmRaises, LlmJson(EmptyShape), LlmJson(ListDoc),
      LlmJson(Doc("visualization", ListOf(<< LlmChart("c1", LlmQuery(GoodSelect)) >>), Absent)) }
    \cup { LlmText(text) : text \in BuildTexts }

InitBuild ==
    /\ Blank("build")
    /\ columns_data = << >>
    /\ sample_rows = << >>
    /\ client = ClientIdle
    /\ results = << >>
    /\ schema_profile = NoProfile
    /\ user_prompts = << >>
    /\ \E reply \in BuildReplies : llm = << reply >>

\* lines 677-700
Build ==
    /\ op = "build" /\ pc = "start"
    /\ IF build_final_charts(llm[1]).raised
       THEN End("http_error") /\ UNCHANGED result
       ELSE End("returned") /\ result' = build_final_charts(llm[1]).value
    /\ UNCHANGED << op, columns_data, sample_rows, schema_profile, user_prompts, results, paths,
                    llm, built, chart_i, valid_charts, kept, submitted, outcomes, client >>

-----------------------------------------------------------------------------
(* clean_llm_json on its own *)

\* the empty text stands for both '' and None (line 307 treats them alike)
InitClean ==
    /\ Blank("clean")
    /\ client = ClientIdle
    /\ results = << >>
    /\ user_prompts = << >>
    /\ schema_profile = NoProfile
    /\ columns_data = << >>
    /\ sample_rows = << >>
    /\ \E text \in BuildTexts : llm = << LlmText(text) >>

\* lines 302-357
Clean ==
    /\ op = "clean" /\ pc = "start"
    /\ result' = Str(clean_llm_json(llm[1].chars))
    /\ End("returned")
    /\ UNCHANGED << op, columns_data, sample_rows, schema_profile, user_prompts, results, paths,
                    llm, built, chart_i, valid_charts, kept, submitted, outcomes, client >>

-----------------------------------------------------------------------------
(* fetch_table_columns, one step per request or sleep *)

\* the default of the timeout parameter, which both callers leave alone
SchemaTimeout == 30

ColumnsList ==
    RowsList(<< Row(<< Cell("column_name", Str(<< "R" >>)) >>) >>)

\* a JSON object answered with a status code below 400
SchemaJson(jobId, status, rd, alt) ==
    [kind |-> "json", jobId |-> jobId, status |-> status, resultData |-> rd, result_data |-> alt]

\* other answers: no answer (httpx.HTTPError), a 4xx or a 5xx status code, a
\* body that is no JSON (resp.json() raises, payload becomes {"_raw_text"}),
\* a JSON body that is a list (payload.get raises AttributeError)
SchemaOther(kind) ==
    [kind |-> kind, jobId |-> NoKey, status |-> NoKey, resultData |-> Absent, result_data |-> Absent]

SchemaAnswers ==
    { SchemaJson(j, st, rd, Absent) :
          j \in { "job1", NoKey }, st \in { "queued", "running", "completed", "failed", NoKey },
          rd \in { Absent, ColumnsList } }
    \cup { SchemaOther(k) : k \in { "transport", "http4xx", "http5xx", "notjson", "jsonlist" } }

JobAnswers ==
    { SchemaJson(NoKey, st, Absent, Absent) : st \in { "queued", "running", "failed", NoKey } }
    \cup { SchemaJson(NoKey, "completed", rd, alt) :
               rd \in { Absent, ColumnsList, RowsList(<< >>) }, alt \in { Absent, ColumnsList } }
    \cup { SchemaOther(k) : k \in { "transport", "http5xx", "notjson", "jsonlist" } }

FetchFailure(code) == [kind |-> "http_exception", code |-> code]
FetchEscape == [kind |-> "exception", code |-> 500]
FetchReturned == [kind |-> "returned", code |-> 200]

FetchStart ==
    [cpc |-> "request", attempt |-> 0, polls |-> 0, sleeps |-> 0, job_id |-> NoKey,
     last |-> SchemaOther("none"), outcome |-> NoOutcome]

\* `x or ...` of line 757
Truthy(val) ==
    CASE val.t \in { "list", "str", "dict" } -> val.v # << >>
      [] val.t = "num" -> val.v # 0
      [] OTHER -> FALSE

\* lines 756-758
ColumnsOfPayload(payload) ==
    IF Truthy(payload.resultData) THEN payload.resultData
    ELSE IF Truthy(payload.result_data) THEN payload.result_data
    ELSE RowsList(<< >>)

\* NextIteration with the loop running one time more
NextIterationOneMore(c) ==
    IF c.attempt <= SchemaTimeout
    THEN [c EXCEPT !.cpc = "sleep"]
    ELSE ClientEnd(c, FetchFailure(504))

\* line 733: the next iteration of the loop, or its else clause (line 753)
NextIteration(c) ==
    IF c.attempt < SchemaTimeout
    THEN [c EXCEPT !.cpc = "sleep"]
    ELSE ClientEnd(c, FetchFailure(504))

InitFetch ==
    /\ Blank("fetch_columns")
    /\ client = FetchStart
    /\ results = << >>
    /\ llm = << >>
    /\ user_prompts = << >>
    /\ schema_profile = NoProfile
    /\ columns_data = << >>
    /\ sample_rows = << >>

FetchFrame ==
    UNCHANGED << op, sample_rows, schema_profile, user_prompts, results, paths, llm, result,
                 built, chart_i, valid_charts, kept, submitted, outcomes >>

\* the call has ended: what it returned or raised
FetchEnd(c, outcome, columns) ==
    /\ client' = ClientEnd(c, outcome)
    /\ columns_data' = columns
    /\ End(IF outcome.kind = "returned" THEN "returned"
           ELSE IF outcome.kind = "http_exception" THEN "http_error" ELSE "unhandled")

FetchGoOn(c) ==
    IF c.cpc = "ended"
    THEN FetchEnd(c, c.outcome, columns_data)
    ELSE client' = c /\ UNCHANGED << pc, response, columns_data >>

\* lines 710-731 and, with no job to wait for, 756-758
FetchRequest ==
    /\ op = "fetch_columns" /\ pc = "start" /\ client.cpc = "request"
    /\ \E ans \in SchemaAnswers :
          LET c == [client EXCEPT !.last = ans] IN
          CASE ans.kind = "transport" -> FetchEnd(c, FetchFailure(502), columns_data)
            [] ans.kind = "http5xx" -> FetchEnd(c, FetchFailure(502), columns_data)
            [] ans.kind = "http4xx" -> FetchEnd(c, FetchFailure(400), columns_data)
            [] ans.kind = "jsonlist" -> FetchEnd(c, FetchEscape, columns_data)
            [] ans.kind = "json" /\ ans.jobId # NoKey /\ ans.status \in { "queued", "running" } ->
                  FetchGoOn(NextIteration([c EXCEPT !.job_id = ans.jobId]))
            [] OTHER -> FetchEnd(c, FetchReturned, ColumnsOfPayload(ans))
    /\ FetchFrame

\* line 734
FetchSleep ==
    /\ op = "fetch_columns" /\ pc = "start" /\ client.cpc = "sleep"
    /\ client' = [client EXCEPT !.sleeps = @ + 1, !.cpc = "poll"]
    /\ UNCHANGED << pc, response, columns_data >>
    /\ FetchFrame

\* lines 735-751: one GET of the job status
FetchPoll ==
    /\ op = "fetch_columns" /\ pc = "start" /\ client.cpc = "poll"
    /\ \E ans \in JobAnswers :
          LET c == [client EXCEPT !.polls = @ + 1, !.attempt = @ + 1, !.last = ans] IN
          CASE ans.kind = "transport" -> FetchEnd(c, FetchFailure(502), columns_data)
            [] ans.kind = "http5xx" -> FetchEnd(c, FetchFailure(502), columns_data)
            [] ans.kind = "jsonlist" -> FetchEnd(c, FetchEscape, columns_data)
            [] ans.kind = "json" /\ ans.status = "completed" ->
                  FetchEnd(c, FetchReturned, ColumnsOfPayload(ans))
            [] ans.kind = "json" /\ ans.status = "failed" ->
                  FetchEnd(c, FetchFailure(400), columns_data)
            [] OTHER -> FetchGoOn(NextIteration(c))
    /\ FetchFrame

-----------------------------------------------------------------------------
(* Specifications *)

Next ==
    \/ FetchSchema
    \/ FetchSamples
    \/ SuggestUngrounded
    \/ SuggestPrompt
    \/ SuggestReturn
    \/ BuildCharts
    \/ ExecuteChart
    \/ ReturnCharts
    \/ BuildQueries
    \/ ExecuteChartBQ
    \/ ReturnChartsBQ

\* both chart-executing operations, end to end
Spec == Init /\ [][Next]_vars

NextSuggest == SuggestUngrounded \/ SuggestPrompt \/ SuggestReturn

\* ChartSuggester.suggest on its own
SpecSuggest == InitSuggest /\ [][NextSuggest]_vars

NextClient ==
    \/ CallForSamples
    \/ CallForChart
    \/ CallForChartBQ
    \/ ClientSubmit
    \/ ClientPoll
    \/ ClientSleep
    \/ SamplesBack
    \/ ChartBack
    \/ ChartBackBQ
    \/ ReturnCharts
    \/ ReturnChartsBQ

\* the execution client step by step, under the sample fetch and the chart loops
SpecClient == InitClient /\ [][NextClient]_vars

NextFallback == Fallback

\* the rule-based suggestions over every small profile
SpecFallback == InitFallback /\ [][NextFallback]_vars

NextFallbackCharts == FallbackCharts

\* the fallback builder over small candidate sets and profiles
SpecFallbackCharts == InitFallbackCharts /\ [][NextFallbackCharts]_vars

NextTransform == Transform

\* the reshaping over every small payload
SpecTransform == InitTransform /\ [][NextTransform]_vars

NextProfile == Profile

\* the schema profile over every small list of descriptors
SpecProfile == InitProfile /\ [][NextProfile]_vars

NextInfer == Infer

\* the type inference over every short sequence of sample values
SpecInfer == InitInfer /\ [][NextInfer]_vars

NextClean == Clean

\* the cleaning over every small reply text
SpecClean == InitClean /\ [][NextClean]_vars

NextFetch == FetchRequest \/ FetchSleep \/ FetchPoll

\* the schema fetch step by step; the event loop runs the call until it ends
SpecFetch == InitFetch /\ [][NextFetch]_vars /\ WF_vars(NextFetch)

NextBuild == Build

\* the builder over every small reply
SpecBuild == InitBuild /\ [][NextBuild]_vars

-----------------------------------------------------------------------------
(* Properties of execute_query_on_datalake (SpecClient) *)

TimedOut(o) == o = HttpException(TimeoutDetail)
Terminal(ans) == ans.kind = "json" /\ ans.status \in { "completed", "failed" }

\* the sample fetch is the caller (no chart is submitted in such a run)
SampleRun == pc \in { "sample", "sample_call", "suggest" }

\* the chart of the response that the k-th submission was made for
ResponseChart(k) ==
    IF op = "execute_prompt"
    THEN valid_charts[CHOOSE j \in 1..Len(kept) : kept[j] = submitted[k].i]
    ELSE Charts[submitted[k].i]

\* C1: a job that never reaches a terminal status is polled exactly 60
\* times, each poll followed by a sleep, and the call then ends by raising
\* 'Query execution timeout'; there is never a 61st poll and the counters
\* are bounded, so the call cannot go on forever.  Every caller catches the
\* timeout: the sample fetch goes on with no sample rows, a chart loop
\* records the message on the chart and goes on, and the request is never
\* ended by it.
C1_SixtyPollsThenTimeout ==
    /\ client.polls <= MaxPollAttempts
    /\ client.sleeps <= client.polls
    /\ client.submits <= 1
    /\ client.cpc = "poll" =>
          client.attempt < MaxPollAttempts /\ client.polls = client.attempt
    /\ client.cpc = "sleep" => client.polls = client.attempt + 1
    /\ client.cpc = "ended" /\ client.polls > 0 /\ client.sleeps = client.polls =>
          client.polls = MaxPollAttempts /\ TimedOut(client.outcome)
    /\ TimedOut(client.outcome) =>
          client.cpc = "ended" /\ client.polls = MaxPollAttempts
                               /\ client.sleeps = MaxPollAttempts
    /\ \A k \in 1..Len(outcomes) :
          TimedOut(outcomes[k]) =>
             IF SampleRun
             THEN sample_rows = << >> /\ pc = "suggest" /\ response = "none"
             ELSE ResponseChart(k).error = ErrorText(TimeoutDetail)
    /\ response = "unhandled" =>
          chart_i < Len(Charts) /\ Charts[chart_i + 1].chart_id = NoKey
    /\ response # "http_error"

\* a chart loop has gone on to the next chart after a timeout of the first
C1_Witness ==
    /\ Len(outcomes) >= 1 /\ TimedOut(outcomes[1])
    /\ ~SampleRun
    /\ Len(submitted) = 2
    /\ client.cpc = "poll" /\ client.polls = 1

\* C2: the poll that answers completed or failed is the last request of
\* the call, with no sleep after it: completed returns that poll's payload
\* as it is, failed raises 'Query failed: ' and the payload's message
\* ('Unknown error' without one).  Polling and sleeping go on only after
\* an answer that is neither.
C2_TerminalPollEndsPolling ==
    /\ client.cpc \in { "poll", "sleep" } /\ client.polls > 0 => ~Terminal(client.last)
    /\ client.cpc = "ended" /\ Terminal(client.last) =>
          /\ client.sleeps = client.polls - 1
          /\ client.last.status = "completed" => client.outcome = Returned(client.last)
          /\ client.last.status = "failed" =>
                client.outcome = HttpException(
                    << "Query failed: ",
                       IF client.last.message = NoKey THEN "Unknown error"
                       ELSE client.last.message >>)
    /\ client.outcome.kind = "completed" =>
          client.cpc = "ended" /\ client.outcome.payload = client.last
                               /\ client.last.status = "completed"

\* the third poll answered completed with rows, after two sleeps
C2_Witness ==
    /\ client.cpc = "ended" /\ client.polls = 3 /\ client.sleeps = 2
    /\ client.last = StatusJson("completed", NoKey, RowsList(<< RowAsia, RowEU >>))
    /\ client.outcome = Returned(client.last)

\* a failed job ended the call at the second poll
C2_WitnessFailed ==
    /\ client.cpc = "ended" /\ client.polls = 2 /\ client.sleeps = 1
    /\ client.last.status = "failed" /\ client.last.message = "boom"
    /\ client.outcome = HttpException(<< "Query failed: ", "boom" >>)

-----------------------------------------------------------------------------
(* Properties of the chart loops (Spec) *)

Failed(o) == o.kind # "completed"

\* what identifies a chart of the builder in the response
SameChart(a, b) ==
    /\ a.chart_id = b.chart_id /\ a.user_prompt = b.user_prompt
    /\ a.chart_type = b.chart_type /\ a.encoding = b.encoding

\* the builder's chart j is one the loop hands to the client
Executed(j) ==
    IF op = "execute_prompt"
    THEN PrepareChart(built[j], Range(schema_profile.column_names), Source).do = "submit"
    ELSE PrepareChartBQ(built[j]).do = "submit"

SubmittedIndices == { submitted[k].i : k \in 1..Len(submitted) }

\* C3: a failed execution of one chart stops nothing.  Which charts are
\* executed depends on the charts alone, never on how earlier executions
\* ended; a failed chart carries its error text; and the response holds
\* every submitted chart, the failed ones too, in the builder's order.  A
\* request is cut short only by a non-object builder result or, in
\* build-queries, by a chart without chart_id, never by an execution.
C3_FailureIsolatedPerChart ==
    /\ Len(outcomes) = Len(submitted)
    /\ op = "execute_prompt" => SubmittedIndices \subseteq Range(kept)
    /\ \A k \in 1..Len(outcomes) :
          Failed(outcomes[k]) => ResponseChart(k).error.t = "str"
    /\ response = "unhandled" /\ pc = "done" /\ result.t = "dict" =>
          /\ op = "build_queries"
          /\ built[chart_i + 1].chart_id = NoKey
          /\ chart_i + 1 \notin SubmittedIndices
    /\ response = "returned" =>
          /\ chart_i = Len(built)
          /\ SubmittedIndices = { j \in 1..Len(built) : Executed(j) }
          /\ \A k \in 1..Len(submitted) : k > 1 => submitted[k - 1].i < submitted[k].i
          /\ IF op = "execute_prompt"
             THEN /\ Charts = valid_charts
                  /\ Len(kept) = Len(valid_charts)
                  /\ \A j \in 1..Len(kept) :
                        /\ j > 1 => kept[j - 1] < kept[j]
                        /\ SameChart(Charts[j], built[kept[j]])
             ELSE /\ Len(Charts) = Len(built)
                  /\ \A j \in 1..Len(built) : SameChart(Charts[j], built[j])

\* execute-prompt returned two charts: the first timed out, the second
\* was executed all the same and carries its data
C3_Witness ==
    /\ op = "execute_prompt" /\ response = "returned"
    /\ Len(outcomes) = 2 /\ TimedOut(outcomes[1]) /\ ~Failed(outcomes[2])
    /\ Len(Charts) = 2
    /\ Charts[1].error = ErrorText(TimeoutDetail)
    /\ Charts[2].error = Null /\ Charts[2].data.t = "chartjs"

\* the same in build-queries, the first job missing its id
C3_WitnessBuildQueries ==
    /\ op = "build_queries" /\ response = "returned"
    /\ Len(outcomes) = 2 /\ outcomes[1] = HttpException(NoJobDetail) /\ ~Failed(outcomes[2])
    /\ Charts[1].error = ErrorText(NoJobDetail)
    /\ Charts[2].error = Null

\* the execution of the k-th submission ended in a reshaped result
Succeeded(k) ==
    /\ outcomes[k].kind = "completed"
    /\ ~TransformRaises(outcomes[k].payload)
    /\ op = "execute_prompt" => ~ResultLenRaises(outcomes[k].payload)

\* C4: every chart of a response has both fields: a failed execution
\* leaves an error text and the empty data {labels: [], datasets: []}, a
\* successful one a null error and the reshaped result.
C4_ErrorAndDataOnEveryChart ==
    response = "returned" =>
        /\ \A j \in 1..Len(Charts) :
              Charts[j].error.t # "absent" /\ Charts[j].data.t # "absent"
        /\ \A k \in 1..Len(outcomes) :
              IF Succeeded(k)
              THEN /\ ResponseChart(k).error = Null
                   /\ ResponseChart(k).data =
                          ChartData(transform_to_chartjs_format(outcomes[k].payload))
              ELSE /\ ResponseChart(k).error.t = "str"
                   /\ ResponseChart(k).data = ChartData(EmptyChartData)

\* C10: whatever is handed to the client as a chart's query has a select
\* that is a list whose entries are all records.
C10_SelectIsListOfRecords ==
    \A k \in 1..Len(submitted) :
        /\ submitted[k].query.select.t = "list"
        /\ \A n \in 1..Len(submitted[k].query.select.v) :
              submitted[k].query.select.v[n].t = "dict"

-----------------------------------------------------------------------------
(* Properties of ChartSuggester.suggest (SpecSuggest) *)

\* C5: no record holds more than 4 candidates, on any path.
C5_AtMostFourCandidates ==
    \A i \in 1..Len(results) : Len(results[i].chosen_charts) <= 4

ColumnNames == Range(schema_profile.column_names)

\* every non-empty x and y of the candidate is a column of the profile
Grounded(cand) ==
    \A v \in { cand.encoding.x, cand.encoding.y } : v \in { NoKey, "" } \/ v \in ColumnNames

\* the candidates the i-th reply carried, when it was read as a document
Proposed(i) ==
    IF llm[i].kind # "exception" /\ ParseContent(llm[i]).ok
    THEN ChosenCharts(ParseContent(llm[i]).doc)
    ELSE << >>

GenerativeFailed(i) == llm[i].kind = "exception" \/ ~ParseContent(llm[i]).ok

-----------------------------------------------------------------------------
(* Properties of _generate_fallback_suggestions (SpecFallback) *)

\* the n-th column of one of the types, NoKey when there are fewer
NthOfTypes(types, n) ==
    LET at == { i \in 1..Len(schema_profile.columns) : schema_profile.columns[i].type \in types }
        upto(i) == Cardinality({ j \in at : j <= i })
    IN  IF Cardinality(at) < n THEN NoKey
        ELSE schema_profile.columns[CHOOSE i \in at : upto(i) = n].name

\* the rule table: each rule with the columns it needs and what it emits
RuleTable ==
    LET date == NthOfTypes({ "date" }, 1)
        numeric == NthOfTypes({ "numeric" }, 1)
        second == NthOfTypes({ "numeric" }, 2)
        label == NthOfTypes({ "category", "string" }, 1)
    IN  << [needs |-> { date, numeric }, emits |-> Candidate("9", "line_chart", Enc(date, numeric))],
           [needs |-> { label, numeric }, emits |-> Candidate("1", "bar_chart", Enc(label, numeric))],
           [needs |-> { numeric }, emits |-> Candidate("4", "histogram", Enc(numeric, NoKey))],
           [needs |-> { label, numeric }, emits |-> Candidate("6", "pie_chart", Enc(label, numeric))],
           [needs |-> { numeric, second }, emits |-> Candidate("5", "scatter_plot", Enc(numeric, second))],
           [needs |-> { numeric }, emits |-> Candidate("10", "big_number", Enc(NoKey, numeric))] >>

Applicable == SelectSeq(RuleTable, LAMBDA r : NoKey \notin r.needs)

GenericFour ==
    << Candidate("1", "bar_chart", Enc(NoKey, NoKey)), Candidate("9", "line_chart", Enc(NoKey, NoKey)),
       Candidate("6", "pie_chart", Enc(NoKey, NoKey)), Candidate("10", "big_number", Enc(NoKey, NoKey)) >>

\* C8: the fallback returns one record per prompt, in order, each holding
\* the first 4 applicable rules of the table in the table's order (so no
\* chart kind twice, and a rule without its columns leaves no candidate);
\* without a profile, or with one that has no columns, each record holds
\* the 4 generic candidates with empty encodings.
C8_FallbackEqualsRuleTable ==
    op = "fallback" /\ pc = "done" =>
        /\ Len(results) = Len(user_prompts)
        /\ \A i \in 1..Len(results) :
              LET emitted == results[i].chosen_charts IN
              /\ results[i].user_prompt = user_prompts[i]
              /\ Len(emitted) <= 4
              /\ \A m, n \in 1..Len(emitted) : m # n => emitted[m].name # emitted[n].name
              /\ IF schema_profile.t = "absent" \/ schema_profile.columns = << >>
                 THEN emitted = GenericFour
                 ELSE /\ Len(emitted) = Min(4, Len(Applicable))
                      /\ \A n \in 1..Len(emitted) : emitted[n] = Applicable[n].emits
              /\ schema_profile = ProfileOfTypes(<< "date", "numeric" >>) =>
                    /\ Cardinality({ n \in 1..Len(emitted) : emitted[n].name = "line_chart" }) = 1
                    /\ emitted[1] = Candidate("9", "line_chart", Enc(ColumnName(1), ColumnName(2)))

\* a string, a numeric and a second numeric column: five rules apply and
\* the first four are emitted, the scatter plot left out
C8_Witness ==
    /\ op = "fallback" /\ pc = "done" /\ Len(results) = 2
    /\ schema_profile = ProfileOfTypes(<< "string", "numeric", "numeric" >>)
    /\ Len(Applicable) = 5
    /\ [n \in 1..4 |-> results[2].chosen_charts[n].name]
          = << "bar_chart", "histogram", "pie_chart", "scatter_plot" >>

-----------------------------------------------------------------------------
(* Properties of build_final_charts (SpecBuild) *)

\* C9: build_final_charts raises on no reply text; every value it returns
\* is a mapping with intent 'visualization' and a list of charts; and for
\* a text that is no JSON document (no bracket, invalid, empty) the value
\* is exactly {intent: 'visualization', charts: []}.
C9_EmptyShapeOnUnparsableText ==
    op = "build" /\ pc = "done" =>
        /\ llm[1].kind = "text" => response = "returned"
        /\ response = "returned" =>
              /\ result.t = "dict"
              /\ result.intent = "visualization"
              /\ result.charts.t = "list"
        /\ llm[1].kind = "text" /\ ~IsJsonValue(llm[1].chars) => result = EmptyShape

-----------------------------------------------------------------------------
(* Properties of api_execute_prompt's validation (Spec) *)

\* the columns the entries of a select name, records and strings alike
NamedColumns(select) ==
    { select.v[n].column : n \in 1..Len(select.v) } \ { NoKey, "" }

\* C11: in execute-prompt every submitted query names, in its select
\* entries, columns of the profile only and has at least one entry, and a
\* chart that was not submitted for want of a query or of a valid entry is
\* not in the response.
C11_SubmittedSelectNamesKnownColumns ==
    op = "execute_prompt" =>
        /\ \A k \in 1..Len(submitted) :
              /\ NamedColumns(submitted[k].query.select) \subseteq Range(schema_profile.column_names)
              /\ submitted[k].query.select.v # << >>
        /\ \A j \in 1..Len(kept) :
              ~QueryMissing(built[kept[j]])

-----------------------------------------------------------------------------
(* Properties of _build_fallback_charts (SpecFallbackCharts) *)

RECURSIVE Flattened(_)
\* every candidate of every set, in order, with the prompt of its set
Flattened(sets) ==
    IF sets = << >> THEN << >>
    ELSE [n \in 1..Len(Head(sets).chosen_charts) |->
             [prompt |-> Head(sets).user_prompt, cand |-> Head(sets).chosen_charts[n]]]
         \o Flattened(Tail(sets))

Own(v) == IF v \in { NoKey, "" } THEN NoKey ELSE v
Else(v, w) == IF v # NoKey THEN v ELSE w

ResolvedX(cand) ==
    Else(Own(cand.encoding.x),
         Else(NthOfTypes({ "category", "string" }, 1), NthOfTypes({ "date" }, 1)))
ResolvedY(cand) == Else(Own(cand.encoding.y), NthOfTypes({ "numeric" }, 1))

\* the chart the rule prescribes for a candidate with a resolvable y
PrescribedChart(e) ==
    LET x == ResolvedX(e.cand)
        y == ResolvedY(e.cand)
    IN  [user_prompt |-> e.prompt, chart_id |-> e.cand.id, chart_type |-> e.cand.name,
         encoding |-> [x |-> IF x = NoKey THEN "" ELSE x, y |-> y, color |-> ""],
         data |-> NoData, error |-> NoError,
         query |->
            [t |-> "dict", source |-> Source, filters |-> << >>,
             select |-> [t |-> "list",
                         v |-> (IF x = NoKey THEN << >>
                                ELSE << [t |-> "dict", column |-> x, aggregation |-> NoKey, as |-> x] >>)
                               \o << [t |-> "dict", column |-> y, aggregation |-> "sum", as |-> y] >>],
             groupBy |-> IF x = NoKey THEN << >> ELSE << x >>,
             orderBy |-> << [column |-> y, direction |-> "desc"] >>,
             limit |-> [t |-> "num", v |-> 20, e |-> 0]]]

Emitting == SelectSeq(Flattened(results), LAMBDA e : ResolvedY(e.cand) # NoKey)

\* C12: the fallback builder returns the charts prescribed for the first
\* 4 candidates, over all sets together and in candidate order, that have
\* a resolvable y.
C12_FallbackChartsAreFirstFour ==
    op = "fallback_charts" /\ pc = "done" =>
        /\ result.intent = "visualization"
        /\ Len(Charts) = Min(4, Len(Emitting))
        /\ \A n \in 1..Len(Charts) : Charts[n] = PrescribedChart(Emitting[n])

\* no set holds more than 4 candidates
SetsWithinFour == \A i \in 1..Len(results) : Len(results[i].chosen_charts) <= 4

-----------------------------------------------------------------------------
(* transform_to_chartjs_format: what it returns *)

Payload == client.outcome.payload
Transformed == op = "transform" /\ pc = "done"

\* empty, absent, null, no list, or a list whose first row is no mapping
NoRows(rd) ==
    \/ rd.t \in { "absent", "null", "dict", "str", "num" }
    \/ rd.t = "list" /\ (rd.v = << >> \/ rd.v[1].t # "dict")

\* C13: for a payload whose resultData is empty, absent, null, not
\* list-shaped (a mapping, a string, a number) or a list whose first row is no
\* mapping, the transform returns, without raising, exactly the empty chart data.
C13_EmptyChartDataWithoutRows ==
    (Transformed /\ NoRows(Payload.resultData)) =>
        /\ response = "returned"
        /\ result = ChartData(EmptyChartData)

\* a non-empty list whose rows are all mappings
RowMappingsOnly(rd) ==
    rd.t = "list" /\ rd.v # << >> /\ \A r \in 1..Len(rd.v) : rd.v[r].t = "dict"

TheRows == Payload.resultData.v
FirstRowKeys == [i \in 1..Len(TheRows[1].v) |-> TheRows[1].v[i].k]

\* verbatim when numeric, else parsed, else 0
ClaimedValue(cells, col) ==
    IF ~HasKey(cells, col) THEN Num(0)
    ELSE LET val == GetCell(cells, col, Null) IN
         IF val.t = "num" THEN val
         ELSE IF val.t = "str" /\ ParseFloat(val.v).ok THEN ParseFloat(val.v).val
         ELSE Num(0)

ClaimedLabel(cells, col) ==
    IF HasKey(cells, col) THEN TextOf(GetCell(cells, col, Null)) ELSE << >>

\* labels from the first column, one dataset per later column
ReshapedByColumns(d) ==
    /\ Len(d.labels) = Len(TheRows)
    /\ \A r \in 1..Len(TheRows) : d.labels[r] = ClaimedLabel(TheRows[r].v, FirstRowKeys[1])
    /\ Len(d.datasets) = Len(FirstRowKeys) - 1
    /\ \A n \in 1..Len(d.datasets) :
          /\ d.datasets[n].label = FirstRowKeys[n + 1]
          /\ Len(d.datasets[n].data) = Len(d.labels)
          /\ \A r \in 1..Len(TheRows) :
                d.datasets[n].data[r] = ClaimedValue(TheRows[r].v, FirstRowKeys[n + 1])

\* C14 as stated: on every non-empty list of row mappings labels has one entry
\* per row, taken from the first column of the first row's key order, and there
\* is one dataset per later column with one value per row.
C14_OneLabelPerRow ==
    (Transformed /\ RowMappingsOnly(Payload.resultData)) =>
        /\ response = "returned"
        /\ Len(result.v.labels) = Len(TheRows)
        /\ FirstRowKeys # << >> => ReshapedByColumns(result.v)

\* C14: on a non-empty list of row mappings whose first row has at least one
\* key, columns are the first row's keys in order, labels holds the string form
\* of each row's first-column value ('' when missing), and each later column
\* gives one dataset labelled with the column name holding one value per row
\* (verbatim when numeric, else parsed, else 0); when the first row has no key
\* the result is the empty chart data.
C14_ReshapedUnlessFirstRowEmpty ==
    (Transformed /\ RowMappingsOnly(Payload.resultData)) =>
        /\ response = "returned"
        /\ IF FirstRowKeys = << >>
           THEN result = ChartData(EmptyChartData)
           ELSE ReshapedByColumns(result.v)

\* the rows of the example: Asia 100, EU 50
C14_Witness ==
    /\ Transformed
    /\ Payload.resultData = RowsList(<< RowAsia, RowEU >>)
    /\ response = "returned"
    /\ result.v.labels = << << "A", "s", "i", "a" >>, << "E", "U" >> >>
    /\ Len(result.v.datasets) = 1
    /\ result.v.datasets[1].label = "Sales"
    /\ result.v.datasets[1].data = << Num(100), Num(50) >>

\* a string cell that parses ends up as a number in a dataset
C14_WitnessParsed ==
    /\ Transformed
    /\ Payload.resultData = RowsList(<< Row(<< Cell("Region", Null), Cell("Sales", Str(<< "5", "0" >>)) >>),
                                        Row(<< Cell("Sales", Str(<< "E", "U" >>)) >>) >>)
    /\ result.v.labels = << << "N", "o", "n", "e" >>, << >> >>
    /\ result.v.datasets[1].data = << Num(50), Num(0) >>

-----------------------------------------------------------------------------
(* build_schema_profile: names *)

NoDuplicates(s) == \A i, j \in 1..Len(s) : s[i] = s[j] => i = j

ProfileNames == { schema_profile.columns[i].name : i \in 1..Len(schema_profile.columns) }

\* C15: whatever the descriptors (repeated names included), the profile's
\* column_names holds no name twice and is exactly the set of names of the
\* profile's columns.
C15_ColumnNamesAreTheSetOfNames ==
    (op = "profile" /\ pc = "done") =>
        /\ Range(schema_profile.column_names) = ProfileNames
        /\ NoDuplicates(schema_profile.column_names)

-----------------------------------------------------------------------------
(* infer_column_type: the rule cascade *)

\* digits with optional thousands separators, at most one decimal point and an
\* optional leading minus
NumericLiteral(text) ==
    LET body == IF text # << >> /\ Head(text) = "-" THEN Tail(text) ELSE text
        plain == Without(body, ",")
    IN  /\ Cardinality({ i \in 1..Len(plain) : plain[i] = "." }) <= 1
        /\ AllDigits(Without(plain, "."))

NonBlank(values) ==
    LET kept_values == SelectSeq(values, LAMBDA v : v.t # "null")
    IN  [i \in 1..Len(kept_values) |-> TextOf(kept_values[i])]

DateLike(text) == Len(text) >= 8 /\ \E p \in DatePatterns : Contains(text, p)

\* the cascade: numeric, date, boolean, then category or string
CascadeType(values) ==
    LET texts == NonBlank(values)
        numeric == Cardinality({ i \in 1..Len(texts) : NumericLiteral(texts[i]) })
        total == IF Len(texts) > 1 THEN Len(texts) ELSE 1
    IN  IF values = << >> THEN "unknown"
        ELSE IF texts # << >> /\ 10 * numeric > 8 * Len(texts) THEN "numeric"
        ELSE IF texts # << >> /\ DateLike(texts[1]) THEN "date"
        ELSE IF texts # << >> /\ \A i \in 1..Len(texts) : Lower(texts[i]) \in BooleanWords THEN "boolean"
        ELSE IF 10 * Cardinality(Range(texts)) < 3 * total THEN "category"
        ELSE "string"

\* C16: the inferred tag is the one of the ordered cascade (numeric when more
\* than 80% of the non-blank values are numeric literals, wherever the others
\* stand; else date by the first non-blank value; else boolean; else category
\* or string by the unique ratio), and unknown for no values.
C16_TagFollowsCascade ==
    (op = "infer" /\ pc = "done") => result.v = CascadeType(sample_rows)


-----------------------------------------------------------------------------
(* clean_llm_json: what it returns *)

\* the text once tags, the [OUT] wrapper, fences and outer blanks are gone
Unwrapped(text) == Unfence(Unwrap(RemoveTags(Strip(text))))

Opens(s) == { i \in 1..Len(s) : s[i] \in { "{", "[" } }
FirstOpen(s) == MinOf(Opens(s))
Closer(c) == IF c = "{" THEN "}" ELSE "]"
Closes(s) == { i \in 1..Len(s) : s[i] = Closer(s[FirstOpen(s)]) /\ i > FirstOpen(s) }
HasSpan(s) == Opens(s) # { } /\ Closes(s) # { }

\* C17: '{}' stands for an empty input only; a non-empty input without a
\* well-ordered bracket span (no '{' and no '[' included) comes back as its
\* stripped text, unmodified; with a span the result is the slice from the
\* first '{' or '[' to the last closing bracket of the same kind.
C17_CleanedTextOrSpan ==
    (op = "clean" /\ pc = "done") =>
        LET text == llm[1].chars
            s == Unwrapped(text)
        IN  IF text = << >> THEN result.v = EmptyObjectText
            ELSE IF HasSpan(s) THEN result.v = SubSeq(s, FirstOpen(s), MaxOf(Closes(s)))
            ELSE result.v = s

-----------------------------------------------------------------------------
(* execute_query_on_datalake: submission before polling *)

HasJob(c) == c.job_id \notin { NoKey, "" }

\* C18: a call submits its query exactly once and polls only once the
\* submission has returned a job id; a submission that fails in transport or
\* returns no job id ends the call in failure with no poll and no second
\* submission.
C18_OneSubmissionThenPolls ==
    /\ client.submits <= 1
    /\ client.cpc = "submit" => client.submits = 0 /\ client.polls = 0
    /\ client.cpc \in { "poll", "sleep", "ended" } => client.submits = 1
    /\ client.cpc \in { "poll", "sleep" } \/ client.polls > 0 => HasJob(client)
    /\ (client.cpc = "ended" /\ ~HasJob(client)) =>
          /\ client.polls = 0
          /\ Failed(client.outcome)

\* a submission answered without a job id: failure, no poll
C18_Witness ==
    /\ client.cpc = "ended"
    /\ client.submits = 1
    /\ client.polls = 0
    /\ client.outcome = HttpException(NoJobDetail)

\* a submission that failed in transport
C18_WitnessTransport ==
    /\ client.cpc = "ended"
    /\ client.submits = 1
    /\ client.polls = 0
    /\ client.outcome = HttpException(TransportDetail)

\* polls after a submission that returned a job id
C18_WitnessPolled ==
    /\ client.submits = 1
    /\ client.polls = 2
    /\ HasJob(client)

-----------------------------------------------------------------------------
(* api_execute_prompt: the builder and its fallback, the order of the stages *)

\* the build stage has run: its path is the last one recorded
BuilderRan ==
    /\ op = "execute_prompt"
    /\ paths # << >>
    /\ paths[Len(paths)] \in { "builder", "fallback_builder" }

BuilderReply == llm[Len(llm)]
FallbackUsed == paths[Len(paths)] = "fallback_builder"

\* C19: the fallback builder is used exactly when the primary builder raises;
\* the request then goes on to the executions with the fallback's charts and
\* returns normally; when the primary builder returns (the empty shape
\* included) its result is the one executed.
C19_FallbackBuilderIffPrimaryRaises ==
    BuilderRan =>
        /\ FallbackUsed <=> build_final_charts(BuilderReply).raised
        /\ FallbackUsed =>
              /\ built = ChartsOf(_build_fallback_charts(results, schema_profile, Source))
              /\ pc \in { "charts", "done" }
              /\ pc = "done" => response = "returned"
        /\ ~FallbackUsed => built = ChartsOf(build_final_charts(BuilderReply).value)

\* the primary builder raised and a fallback chart was executed and returned
C19_Witness ==
    /\ BuilderRan /\ FallbackUsed
    /\ BuilderReply = LlmRaises
    /\ pc = "done" /\ response = "returned"
    /\ Len(built) >= 1
    /\ submitted # << >>
    /\ Len(valid_charts) >= 1

\* the primary builder returned the empty shape: no fallback, no chart
C19_WitnessEmptyShape ==
    /\ BuilderRan /\ ~FallbackUsed
    /\ build_final_charts(BuilderReply).value = EmptyShape
    /\ results # << >> /\ results[1].chosen_charts # << >>
    /\ pc = "done" /\ response = "returned"
    /\ built = << >>

SampleFetchFailed == client.cpc = "ended" /\ Failed(client.outcome)

\* C20: execute-prompt runs its stages in the order schema fetch, sample
\* fetch and profile, candidate generation, query building, chart executions;
\* nothing generative happens before the schema fetch has succeeded; a failed
\* schema fetch ends the request in failure with no generative call and no
\* chart query; a failed sample fetch does not end it, the profile being built
\* with no samples.
C20_StagesInOrder ==
    op = "execute_prompt" =>
        /\ pc \in { "start", "sample" } =>
              llm = << >> /\ paths = << >> /\ results = << >> /\ submitted = << >>
        /\ pc = "start" => schema_profile = NoProfile /\ client = ClientIdle
        /\ pc \in { "suggest", "build" } => ~BuilderRan /\ submitted = << >>
        /\ pc \in { "suggest", "build", "charts" } => schema_profile.t = "dict"
        /\ pc = "build" => Len(results) = Len(user_prompts)
        /\ pc = "charts" => BuilderRan
        /\ BuilderRan => Len(results) = Len(user_prompts)
        /\ submitted # << >> => BuilderRan
        /\ (pc = "done" /\ response = "http_error") =>
              /\ schema_profile = NoProfile /\ client = ClientIdle
              /\ llm = << >> /\ results = << >> /\ submitted = << >>
        /\ SampleFetchFailed =>
              /\ pc \in { "suggest", "build", "charts", "done" }
              /\ response # "http_error"
              /\ sample_rows = << >>
              /\ Len(schema_profile.columns) = Len(columns_data)
              /\ \A i \in 1..Len(schema_profile.columns) : schema_profile.columns[i].samples = << >>
              /\ pc = "suggest" => schema_profile = build_schema_profile(columns_data, << >>)

\* the sample fetch failed and the request still generated, built and executed
C20_Witness ==
    /\ op = "execute_prompt"
    /\ SampleFetchFailed
    /\ pc = "done" /\ response = "returned"
    /\ Len(llm) = 2
    /\ submitted # << >>

\* the schema fetch failed
C20_WitnessSchemaFailure ==
    /\ op = "execute_prompt"
    /\ pc = "done" /\ response = "http_error"
    /\ llm = << >>

-----------------------------------------------------------------------------
(* build_schema_profile: samples and stats *)

\* the non-blank values of a column in the rows that are read
SamplesRead(name) == CollectSamples(Prefix(sample_rows, SampleRowsRead), name)

Parses(v) == ParseFloat(Without(TextOf(v), ",")).ok

\* C21: every column keeps at most the first 3 samples read, and a column
\* tagged numeric with at least one sample that parses as a number carries
\* stats whose min, max and average are those of its retained samples.
C21_StatsOverRetainedSamples ==
    (op = "profile" /\ pc = "done") =>
        \A i \in 1..Len(schema_profile.columns) :
            LET col == schema_profile.columns[i] IN
            /\ Len(col.samples) <= 3
            /\ col.samples = Prefix(SamplesRead(col.name), 3)
            /\ (col.type = "numeric" /\ \E k \in 1..Len(col.samples) : Parses(col.samples[k])) =>
                  /\ col.stats # Absent
                  /\ col.stats = StatsOf(SelectSeq(col.samples, Parses))

-----------------------------------------------------------------------------
(* The source of a submitted query *)

HardcodedSource == "elm4r7a.sales"

\* the query as the builder wrote it, for the k-th submission
BuiltQuery(k) == built[submitted[k].i].query

\* C22: every query handed to the backend carries the operation's source, not
\* the builder's: the request's project and table in execute-prompt, one fixed
\* table identifier in build-queries; filters, groupBy, orderBy and limit are
\* those the builder wrote.
C22_SourceOverwrittenRestKept ==
    \A k \in 1..Len(submitted) :
        LET q == submitted[k].query IN
        /\ op = "execute_prompt" => q.source = Source
        /\ op = "build_queries" => q.source = HardcodedSource
        /\ q.filters = BuiltQuery(k).filters
        /\ q.groupBy = BuiltQuery(k).groupBy
        /\ q.orderBy = BuiltQuery(k).orderBy
        /\ q.limit = BuiltQuery(k).limit

\* build-queries submitted a query whose builder had named another source
C22_Witness ==
    /\ op = "build_queries"
    /\ submitted # << >>
    /\ BuiltQuery(1).source = "uploaded_file"
    /\ submitted[1].query.source = HardcodedSource
    /\ submitted[1].query.groupBy = << "Region" >>

\* execute-prompt did, too, after removing a select entry
C22_WitnessExecutePrompt ==
    /\ op = "execute_prompt"
    /\ submitted # << >>
    /\ BuiltQuery(1).source = "uploaded_file"
    /\ submitted[1].query.source = Source
    /\ submitted[1].query.select # BuiltQuery(1).select

-----------------------------------------------------------------------------
(* fetch_table_columns: waiting for a queued schema job *)

\* the schema request answered with a job id, queued or running
JobAwaited == op = "fetch_columns" /\ client.job_id # NoKey

LastCompleted == client.last.kind = "json" /\ client.last.status = "completed"
LastFailed == client.last.kind = "json" /\ client.last.status = "failed"

\* at most SchemaTimeout polls, one sleep before each, and an end at the first
\* completed or failed poll
PollsBounded ==
    /\ client.polls <= SchemaTimeout
    /\ client.sleeps = client.polls + (IF client.cpc = "poll" THEN 1 ELSE 0)
    /\ client.cpc # "ended" => ~LastCompleted /\ ~LastFailed
    /\ LastCompleted =>
          /\ client.outcome = FetchReturned
          /\ Truthy(client.last.resultData) => columns_data = client.last.resultData
          /\ ~Truthy(client.last.resultData) =>
                columns_data \in { client.last.result_data, RowsList(<< >>) }
    /\ LastFailed => client.outcome.kind = "http_exception"
    /\ client.outcome.kind = "returned" => LastCompleted

\* C23 as stated: while waiting for a queued schema job the call polls at most
\* 30 times, each poll after a second's wait, and always ends: returning the
\* completed payload's resultData at the first completed poll, failing at the
\* first failed poll, and failing with 504 whenever no poll returned completed
\* or failed.
C23_TimeoutUnlessCompletedOrFailed ==
    /\ [](JobAwaited =>
            /\ PollsBounded
            /\ (client.cpc = "ended" /\ ~LastCompleted /\ ~LastFailed) =>
                  client.outcome = FetchFailure(504))
    /\ <>(pc = "done")

\* C23: while waiting for a queued schema job the call polls at most 30 times,
\* each poll after a second's wait, and always ends: returning the completed
\* payload's resultData at the first completed poll, failing at the first
\* failed poll, failing with 502 at a poll that gets no answer or a 5xx status,
\* raising at a poll answered by a JSON list, and failing with 504 after 30
\* polls that were none of these; a failed job never yields a column list.
C23_PollsEndInResultOrFailure ==
    /\ [](JobAwaited =>
            /\ PollsBounded
            /\ (client.cpc = "ended" /\ ~LastCompleted /\ ~LastFailed) =>
                  CASE client.last.kind \in { "transport", "http5xx" } ->
                          client.outcome = FetchFailure(502)
                    [] client.last.kind = "jsonlist" -> client.outcome = FetchEscape
                    [] OTHER -> /\ client.outcome = FetchFailure(504)
                                /\ client.polls = SchemaTimeout)
    /\ <>(pc = "done")

\* thirty polls that were neither completed nor failed: the 504
C23_Witness ==
    /\ JobAwaited
    /\ pc = "done" /\ response = "http_error"
    /\ client.polls = SchemaTimeout /\ client.sleeps = SchemaTimeout
    /\ client.outcome = FetchFailure(504)

\* a job completed at its third poll
C23_WitnessCompleted ==
    /\ JobAwaited
    /\ pc = "done" /\ response = "returned"
    /\ client.polls = 3
    /\ columns_data = ColumnsList

=============================================================================
